---------------------------- MODULE Spec2Model ----------------------------
(***************************************************************************)
(* A model of the bencode codec of stupoid/bencode: the recursive-descent  *)
(* decoder, the reflection binder, the encoder and the struct metadata     *)
(* cache.  A byte is a one-character string, a byte sequence (a Go string  *)
(* or []byte) is a sequence of bytes, and a reader is a byte sequence with *)
(* the 1-based index of its next unread byte.                              *)
(***************************************************************************)
EXTENDS Integers, Sequences, FiniteSets, TLC

VARIABLES
    mode,     \* how the client uses the package in this behaviour: a mode of
              \* StreamModes reads a stream with a Decoder, "value" marshals gv and
              \* unmarshals the result, "bind" unmarshals data into a typed destination,
              \* "cache" resolves and resets struct metadata from several goroutines
    impl,     \* which Decoder the stream is read with: "bencode.go" or "part_000"
    data,     \* the bytes behind the Decoder's bufio.Reader
    sent,     \* what the sender wrote to produce data: the token in mode "nested", the
              \* entries in mode "dict", the values in modes "items" and "truncated"
    pos,      \* the Decoder's reader position: index of the next unread byte
    hist,     \* what each Decode call on this Decoder returned, in order
    gv,       \* the typed Go value handed to Marshal
    mres,     \* what Marshal, or Encode on the sink, returned
    ures,     \* what Unmarshal returned, and the destination afterwards
    sink,     \* the io.Writer an Encoder of the client writes to
    structInfoCache,       \* the package's map from struct type to descriptor list
    structInfoCacheMutex,  \* the sync.RWMutex guarding it: the goroutine holding
                           \* the exclusive lock (0 for none), those holding the shared one
    goroutines,  \* in mode "cache", per goroutine: where it is in getCachedStructInfo
                 \* or ClearStructInfoCache, the call's typ, its locals info and found
    resolved     \* per type, how often its list was computed and inserted since
                 \* the map was last replaced; how often the map was replaced; how
                 \* many calls the goroutines have started

clientVars == <<mode, impl, data, sent, pos, hist, gv, mres, ures, sink>>
cacheVars  == <<structInfoCache, structInfoCacheMutex, goroutines, resolved>>
vars == <<mode, impl, data, sent, pos, hist, gv, mres, ures, sink,
          structInfoCache, structInfoCacheMutex, goroutines, resolved>>

-----------------------------------------------------------------------------
(* Bytes and Go strings *)

Digits == <<"0", "1", "2", "3", "4", "5", "6", "7", "8", "9">>

\* unicode.IsDigit(rune(b)) for a single byte b: only '0'..'9' are Nd below U+0100.
IsDigit(c) == \E i \in 1..10 : Digits[i] = c

DigitVal(c) == (CHOOSE i \in 1..10 : Digits[i] = c) - 1

\* The printable ASCII bytes in code order, from 32 (space) to 126 (~);
\* the double quote, the backslash and the backquote are spelled out and match no byte of the model.
Ascii == <<
    " ", "!", "(quote)", "#", "$", "%", "&", "'", "(", ")", "*", "+",
    ",", "-", ".", "/", "0", "1", "2", "3", "4", "5", "6", "7",
    "8", "9", ":", ";", "<", "=", ">", "?", "@", "A", "B", "C",
    "D", "E", "F", "G", "H", "I", "J", "K", "L", "M", "N", "O",
    "P", "Q", "R", "S", "T", "U", "V", "W", "X", "Y", "Z", "[",
    "(backslash)", "]", "^", "_", "(backquote)", "a", "b", "c", "d", "e", "f", "g",
    "h", "i", "j", "k", "l", "m", "n", "o", "p", "q", "r", "s",
    "t", "u", "v", "w", "x", "y", "z", "{", "|", "}", "~" >>

\* The byte's numeric value, for Go's byte-wise string comparison.
ByteVal(c) == 31 + (CHOOSE i \in 1..Len(Ascii) : Ascii[i] = c)

\* Go's s < t on strings: lexicographic on bytes, a proper prefix is smaller.
RECURSIVE StrLess(_, _)
StrLess(s, t) ==
    IF t = <<>> THEN FALSE
    ELSE IF s = <<>> THEN TRUE
    ELSE IF s[1] # t[1] THEN ByteVal(s[1]) < ByteVal(t[1])
    ELSE StrLess(Tail(s), Tail(t))

\* Go's s >= t on strings.
StrGeq(s, t) == ~StrLess(s, t)

\* The index of the first delim at or after p, or 0: bufio.Reader.ReadString's scan.
RECURSIVE IndexFrom(_, _, _)
IndexFrom(b, p, delim) ==
    IF p > Len(b) THEN 0
    ELSE IF b[p] = delim THEN p
    ELSE IndexFrom(b, p + 1, delim)

\* b[from..to] as a sequence (empty when to < from).
Slice(b, from, to) == [i \in 1..(to - from + 1) |-> b[from + i - 1]]

-----------------------------------------------------------------------------
(* strconv *)

MaxInt64Digits == <<9, 2, 2, 3, 3, 7, 2, 0, 3, 6, 8, 5, 4, 7, 7, 5, 8, 0, 7>>
MinInt64Digits == <<9, 2, 2, 3, 3, 7, 2, 0, 3, 6, 8, 5, 4, 7, 7, 5, 8, 0, 8>>

RECURSIVE StripZeros(_)
StripZeros(ds) ==
    IF Len(ds) > 1 /\ ds[1] = 0 THEN StripZeros(Tail(ds)) ELSE ds

\* ds > lim, both digit sequences without leading zeros.
RECURSIVE DigitsGreater(_, _)
DigitsGreater(ds, lim) ==
    IF Len(ds) # Len(lim) THEN Len(ds) > Len(lim)
    ELSE IF ds = <<>> THEN FALSE
    ELSE IF ds[1] # lim[1] THEN ds[1] > lim[1]
    ELSE DigitsGreater(Tail(ds), Tail(lim))

RECURSIVE DigitsValue(_, _)
DigitsValue(ds, acc) ==
    IF ds = <<>> THEN acc ELSE DigitsValue(Tail(ds), 10 * acc + ds[1])

\* strconv.ParseInt(s, 10, 64): an optional sign '+' or '-', then one or more
\* decimal digits; a value outside the signed 64-bit range is a range error.
ParseInt(s) ==
    LET signed == s # <<>> /\ s[1] \in {"+", "-"}
        neg    == s # <<>> /\ s[1] = "-"
        body   == IF signed THEN Tail(s) ELSE s
        ds     == StripZeros([i \in 1..Len(body) |-> DigitVal(body[i])])
    IN  IF body = <<>> \/ \E i \in 1..Len(body) : ~IsDigit(body[i])
        THEN [ok |-> FALSE, err |-> "ErrSyntax", n |-> 0]
        ELSE IF DigitsGreater(ds, IF neg THEN MinInt64Digits ELSE MaxInt64Digits)
        THEN [ok |-> FALSE, err |-> "ErrRange", n |-> 0]
        ELSE [ok |-> TRUE, err |-> "", n |-> (IF neg THEN -1 ELSE 1) * DigitsValue(ds, 0)]

\* strconv.Atoi(s): ParseInt(s, 10, 0) on a 64-bit int.
Atoi(s) == ParseInt(s)

RECURSIVE NatDigits(_)
NatDigits(n) ==
    IF n < 10 THEN <<Digits[n + 1]>> ELSE Append(NatDigits(n \div 10), Digits[(n % 10) + 1])

\* A %d that writes the sign of every value that is not positive.
FormatIntSigned(n) == IF n <= 0 THEN <<"-">> \o NatDigits(-n) ELSE NatDigits(n)

\* fmt's %d of an integer: '-' for a negative value, then its decimal digits.
FormatInt(n) == IF n < 0 THEN <<"-">> \o NatDigits(-n) ELSE NatDigits(n)

-----------------------------------------------------------------------------
(* Errors: *Error{Type, Msg, FieldName, WrappedErr}.  id names the pointer: *)
(* a sentinel's variable, "new" for a value built at the point of failure,  *)
(* "nil" for no error, and the package for an error of another package.     *)

NoErr == [id |-> "nil"]

NewError(type, msg, field, wrapped) ==
    [id |-> "new", Type |-> type, Msg |-> msg, FieldName |-> field, WrappedErr |-> wrapped]

ErrSyntax                == "syntax error"
ErrSyntaxInteger         == "integer syntax error"
ErrSyntaxStringLength    == "string length syntax error"
ErrSyntaxUnexpectedToken == "unexpected token"
ErrSyntaxEOF             == "unexpected EOF"
ErrStructureDict         == "dictionary structure error"
ErrStructureDictKeySort  == "dictionary key sort order error"
ErrStructureDictKeyDup   == "duplicate dictionary key"
ErrStructureDictValue    == "missing dictionary value"
ErrUnmarshalType         == "unmarshal type mismatch"
ErrUnmarshalOverflow     == "unmarshal overflow"
ErrUnmarshalMapKey       == "unmarshal map key type error"
ErrUsage                 == "API usage error"

ErrNullRootValue ==
    [id |-> "ErrNullRootValue", Type |-> ErrSyntax, Msg |-> "null root value",
     FieldName |-> <<>>, WrappedErr |-> NoErr]
ErrDuplicateDictionaryKey ==
    [id |-> "ErrDuplicateDictionaryKey", Type |-> ErrStructureDictKeyDup,
     Msg |-> "duplicate key in dictionary", FieldName |-> <<>>, WrappedErr |-> NoErr]
ErrDictionaryKeysNotSorted ==
    [id |-> "ErrDictionaryKeysNotSorted", Type |-> ErrStructureDictKeySort,
     Msg |-> "dictionary keys must be sorted lexicographically",
     FieldName |-> <<>>, WrappedErr |-> NoErr]
ErrUnexpectedEOF ==
    [id |-> "ErrUnexpectedEOF", Type |-> ErrSyntaxEOF, Msg |-> "unexpected end of input",
     FieldName |-> <<>>, WrappedErr |-> NoErr]

\* An error of strconv (*strconv.NumError): not a *bencode.Error.
StrconvErr(e) == [id |-> "strconv", Msg |-> e]

\* errors.Is(err, target) for a sentinel target: pointer equality along Unwrap.
RECURSIVE errorsIs(_, _)
errorsIs(err, target) ==
    IF err.id = "nil" THEN FALSE
    ELSE IF err.id = target.id THEN TRUE
    ELSE IF err.id = "new" THEN errorsIs(err.WrappedErr, target)
    ELSE FALSE

-----------------------------------------------------------------------------
(* The generic value model: what decode() returns as `any`. *)

Nil          == [kind |-> "nil"]
Bytes(s)     == [kind |-> "[]byte", b |-> s]
Int64(n)     == [kind |-> "int64", n |-> n]
List(xs)     == [kind |-> "[]any", items |-> xs]
Dict(m)      == [kind |-> "map[string]any", m |-> m]

EmptyMap == [k \in {} |-> Nil]

\* dict[key] = value on a Go map.
MapSet(m, key, value) ==
    [k \in (DOMAIN m) \cup {key} |-> IF k = key THEN value ELSE m[k]]

\* What a decode call returns, and where it left the reader.
Ret(val, err, p) == [val |-> val, err |-> err, pos |-> p]

-----------------------------------------------------------------------------
(* Decoder.decode of the structured-error decoder.  Each operator returns  *)
(* Ret(value, error, reader position after the call).                      *)

RECURSIVE decode(_, _)
RECURSIVE decodeList(_, _, _)
RECURSIVE decodeDict(_, _, _, _, _)

\* decodeString handing back the bytes that are there when fewer than the
\* declared number remain: the variant C6 excludes.
decodeStringShort(b, p) ==
    LET j == IndexFrom(b, p, ":")
    IN  IF j = 0
        THEN Ret(Nil, NewError(ErrSyntaxEOF, "unterminated string length", <<>>,
                               ErrUnexpectedEOF), Len(b) + 1)
        ELSE LET conv   == Atoi(Slice(b, p, j - 1))
                 length == conv.n
                 avail  == Len(b) - j
             IN  IF ~conv.ok
                 THEN Ret(Nil, NewError(ErrSyntaxStringLength, "invalid string length format",
                                        <<>>, StrconvErr(conv.err)), j + 1)
                 ELSE IF length < 0
                 THEN Ret(Nil, NewError(ErrSyntaxStringLength, "negative string length: %d",
                                        <<>>, NoErr), j + 1)
                 ELSE IF avail < length
                 THEN Ret(Bytes(Slice(b, j + 1, Len(b))), NoErr, Len(b) + 1)
                 ELSE Ret(Bytes(Slice(b, j + 1, j + length)), NoErr, j + length + 1)

\* case unicode.IsDigit(token): the reader stands on the first length digit.
decodeString(b, p) ==
    LET j == IndexFrom(b, p, ":")
    IN  IF j = 0
        THEN Ret(Nil, NewError(ErrSyntaxEOF, "unterminated string length", <<>>,
                               ErrUnexpectedEOF), Len(b) + 1)
        ELSE LET conv   == Atoi(Slice(b, p, j - 1))
                 length == conv.n
                 avail  == Len(b) - j
             IN  IF ~conv.ok
                 THEN Ret(Nil, NewError(ErrSyntaxStringLength, "invalid string length format",
                                        <<>>, StrconvErr(conv.err)), j + 1)
                 ELSE IF length < 0
                 THEN Ret(Nil, NewError(ErrSyntaxStringLength, "negative string length: %d",
                                        <<>>, NoErr), j + 1)
                 ELSE IF avail < length
                 THEN Ret(Nil, NewError(ErrSyntaxEOF, "expected %d bytes for string, got %d",
                                        <<>>, ErrUnexpectedEOF), Len(b) + 1)
                 ELSE Ret(Bytes(Slice(b, j + 1, j + length)), NoErr, j + length + 1)

\* The two format checks made on numString before it is parsed.
integerFormatOK(numString) ==
    /\ ~( \/ (Len(numString) > 1 /\ numString[1] = "0")
          \/ (Len(numString) > 2 /\ numString[1] = "-" /\ numString[2] = "0") )
    /\ numString # <<"-", "0">>

\* case token == 'i': the reader stands on the 'i'.
decodeInteger(b, p) ==
    LET j == IndexFrom(b, p + 1, "e")
    IN  IF j = 0
        THEN Ret(Nil, NewError(ErrSyntaxEOF, "integer not terminated by 'e'", <<>>,
                               ErrUnexpectedEOF), Len(b) + 1)
        ELSE LET numString == Slice(b, p + 1, j - 1)
                 conv      == ParseInt(numString)
             IN  IF Len(numString) = 0
                 THEN Ret(Nil, NewError(ErrSyntaxInteger, "empty integer", <<>>, NoErr), j + 1)
                 ELSE IF ~integerFormatOK(numString)
                 THEN Ret(Nil, NewError(ErrSyntaxInteger, "invalid integer format", <<>>,
                                        NoErr), j + 1)
                 ELSE IF ~conv.ok
                 THEN Ret(Nil, NewError(ErrSyntaxInteger, "cannot parse integer %q", <<>>,
                                        StrconvErr(conv.err)), j + 1)
                 ELSE Ret(Int64(conv.n), NoErr, j + 1)

\* case token == 'l': one turn of the loop, with the items appended so far.
decodeList(b, p, list) ==
    IF p > Len(b)
    THEN Ret(Nil, NewError(ErrSyntaxEOF, "list not terminated by 'e'", <<>>,
                           ErrUnexpectedEOF), p)
    ELSE IF b[p] = "e"
    THEN Ret(List(list), NoErr, p + 1)
    ELSE LET item == decode(b, p)
         IN  IF item.err # NoErr
             THEN IF errorsIs(item.err, ErrNullRootValue)
                  THEN Ret(Nil, NewError(ErrSyntaxEOF,
                                         "unexpected end of list, expected item or 'e'",
                                         <<>>, ErrUnexpectedEOF), item.pos)
                  ELSE Ret(Nil, item.err, item.pos)
             ELSE decodeList(b, item.pos, Append(list, item.val))

\* dictKeyErr with the two key checks in the other order: the variant that
\* C3's duplicate-before-order rule excludes.
dictKeyErrOrderFirst(keyVal, dict, prevKey, firstKey) ==
    IF keyVal.kind # "[]byte"
    THEN NewError(ErrStructureDict, "dictionary key type %T is not a bencode string",
                  <<>>, NoErr)
    ELSE IF ~firstKey /\ StrGeq(prevKey, keyVal.b)
    THEN NewError(ErrStructureDictKeySort, "key %q is not lexicographically after %q",
                  keyVal.b, ErrDictionaryKeysNotSorted)
    ELSE IF keyVal.b \in DOMAIN dict
    THEN NewError(ErrStructureDictKeyDup, "key %q", keyVal.b, ErrDuplicateDictionaryKey)
    ELSE NoErr

\* The checks made on a key right after it is read: is it a string, is it new,
\* is it after the previous key.  NoErr when the key passes.
dictKeyErr(keyVal, dict, prevKey, firstKey) ==
    IF keyVal.kind # "[]byte"
    THEN NewError(ErrStructureDict, "dictionary key type %T is not a bencode string",
                  <<>>, NoErr)
    ELSE IF keyVal.b \in DOMAIN dict
    THEN NewError(ErrStructureDictKeyDup, "key %q", keyVal.b, ErrDuplicateDictionaryKey)
    ELSE IF ~firstKey /\ StrGeq(prevKey, keyVal.b)
    THEN NewError(ErrStructureDictKeySort, "key %q is not lexicographically after %q",
                  keyVal.b, ErrDictionaryKeysNotSorted)
    ELSE NoErr

\* decodeDict passing on the error of a missing value as decode returned it:
\* the variant in which a truncated dictionary reports a null root value.
decodeDictNullRoot(b, p, dict, prevKey, firstKey) ==
    IF p > Len(b)
    THEN Ret(Nil, NewError(ErrSyntaxEOF, "dictionary not terminated by 'e'", <<>>,
                           ErrUnexpectedEOF), p)
    ELSE IF b[p] = "e"
    THEN Ret(Dict(dict), NoErr, p + 1)
    ELSE LET key == decode(b, p)
         IN  IF key.err # NoErr
             THEN Ret(Nil, key.err, key.pos)
             ELSE LET keyErr == dictKeyErr(key.val, dict, prevKey, firstKey)
                  IN  IF keyErr # NoErr
                      THEN Ret(Nil, keyErr, key.pos)
                      ELSE LET strKey == key.val.b
                               value  == decode(b, key.pos)
                           IN  IF value.err # NoErr
                               THEN Ret(Nil, value.err, value.pos)
                               ELSE decodeDict(b, value.pos, MapSet(dict, strKey, value.val),
                                               strKey, FALSE)

\* decodeDict reporting every failure of a value's decoding as a missing value.
decodeDictAllMissing(b, p, dict, prevKey, firstKey) ==
    IF p > Len(b)
    THEN Ret(Nil, NewError(ErrSyntaxEOF, "dictionary not terminated by 'e'", <<>>,
                           ErrUnexpectedEOF), p)
    ELSE IF b[p] = "e"
    THEN Ret(Dict(dict), NoErr, p + 1)
    ELSE LET key == decode(b, p)
         IN  IF key.err # NoErr
             THEN IF errorsIs(key.err, ErrNullRootValue)
                  THEN Ret(Nil, NewError(ErrSyntaxEOF,
                                         "unexpected end of dictionary, expected key or 'e'",
                                         <<>>, ErrUnexpectedEOF), key.pos)
                  ELSE Ret(Nil, key.err, key.pos)
             ELSE LET keyErr == dictKeyErr(key.val, dict, prevKey, firstKey)
                  IN  IF keyErr # NoErr
                      THEN Ret(Nil, keyErr, key.pos)
                      ELSE LET strKey == key.val.b
                               value  == decode(b, key.pos)
                           IN  IF value.err # NoErr
                               THEN Ret(Nil, NewError(ErrStructureDictValue,
                                                      "missing value (unexpected EOF)",
                                                      strKey, ErrUnexpectedEOF), value.pos)
                               ELSE decodeDict(b, value.pos, MapSet(dict, strKey, value.val),
                                               strKey, FALSE)

\* case token == 'd': one turn of the loop, with the pairs stored so far.
decodeDict(b, p, dict, prevKey, firstKey) ==
    IF p > Len(b)
    THEN Ret(Nil, NewError(ErrSyntaxEOF, "dictionary not terminated by 'e'", <<>>,
                           ErrUnexpectedEOF), p)
    ELSE IF b[p] = "e"
    THEN Ret(Dict(dict), NoErr, p + 1)
    ELSE LET key == decode(b, p)
         IN  IF key.err # NoErr
             THEN IF errorsIs(key.err, ErrNullRootValue)
                  THEN Ret(Nil, NewError(ErrSyntaxEOF,
                                         "unexpected end of dictionary, expected key or 'e'",
                                         <<>>, ErrUnexpectedEOF), key.pos)
                  ELSE Ret(Nil, key.err, key.pos)
             ELSE LET keyErr == dictKeyErr(key.val, dict, prevKey, firstKey)
                  IN  IF keyErr # NoErr
                      THEN Ret(Nil, keyErr, key.pos)
                      ELSE LET strKey == key.val.b
                               value  == decode(b, key.pos)
                           IN  IF value.err # NoErr
                               THEN IF errorsIs(value.err, ErrNullRootValue)
                                    THEN Ret(Nil, NewError(ErrStructureDictValue,
                                                           "missing value (unexpected EOF)",
                                                           strKey, ErrUnexpectedEOF), value.pos)
                                    ELSE Ret(Nil, NewError(value.err.Type, "decoding value",
                                                           strKey, value.err), value.pos)
                               ELSE decodeDict(b, value.pos, MapSet(dict, strKey, value.val),
                                               strKey, FALSE)

\* Decoder.decode: peek one byte and dispatch.
decode(b, p) ==
    IF p > Len(b) THEN Ret(Nil, ErrNullRootValue, p)
    ELSE LET token == b[p]
         IN  IF IsDigit(token) THEN decodeString(b, p)
             ELSE IF token = "i" THEN decodeInteger(b, p)
             ELSE IF token = "l" THEN decodeList(b, p + 1, <<>>)
             ELSE IF token = "d" THEN decodeDict(b, p + 1, EmptyMap, <<>>, TRUE)
             ELSE Ret(Nil, NewError(ErrSyntaxUnexpectedToken, "unexpected token %q", <<>>,
                                    NoErr), p)

-----------------------------------------------------------------------------
(* bencode.go: the decoder that returns the generic value, with plain      *)
(* sentinel errors.  Its declarations carry the suffix 0 here, because the *)
(* structured-error decoder declares the same names.                       *)

ErrNullRootValue0           == [id |-> "ErrNullRootValue0", Msg |-> "bencode: null root value"]
ErrInvalidType0             == [id |-> "ErrInvalidType0", Msg |-> "bencode: invalid type"]
ErrInvalidInteger0          == [id |-> "ErrInvalidInteger0", Msg |-> "bencode: invalid integer format"]
ErrInvalidDictionaryKey0    == [id |-> "ErrInvalidDictionaryKey0", Msg |-> "bencode: invalid dictionary key type, expected string"]
ErrDuplicateDictionaryKey0  == [id |-> "ErrDuplicateDictionaryKey0", Msg |-> "bencode: duplicate key in dictionary"]
ErrMissingDictionaryValue0  == [id |-> "ErrMissingDictionaryValue0", Msg |-> "bencode: missing value for dictionary key"]
ErrDictionaryKeysNotSorted0 == [id |-> "ErrDictionaryKeysNotSorted0", Msg |-> "bencode: dictionary keys must be sorted in lexicographical order"]
ErrUnexpectedEOF0           == [id |-> "ErrUnexpectedEOF0", Msg |-> "bencode: unexpected EOF"]

\* fmt.Errorf(msg, ...) with one %w operand (NoErr when the format has none).
Errorf(msg, wrapped) == [id |-> "new", Msg |-> msg, WrappedErr |-> wrapped]

\* strings.HasPrefix(s, prefix)
HasPrefix(s, prefix) ==
    Len(s) >= Len(prefix) /\ \A i \in 1..Len(prefix) : s[i] = prefix[i]

RECURSIVE Decode0(_, _)
RECURSIVE Decode0List(_, _, _)
RECURSIVE Decode0Dict(_, _, _, _, _)

\* case unicode.IsDigit(token)
Decode0String(b, p) ==
    LET j == IndexFrom(b, p, ":")
    IN  IF j = 0
        THEN Ret(Nil, ErrUnexpectedEOF0, Len(b) + 1)
        ELSE LET conv   == Atoi(Slice(b, p, j - 1))
                 length == conv.n
                 avail  == Len(b) - j
             IN  IF ~conv.ok
                 THEN Ret(Nil, Errorf("bencode: invalid string length: %w",
                                      StrconvErr(conv.err)), j + 1)
                 ELSE IF length < 0
                 THEN Ret(Nil, Errorf("bencode: invalid negative string length: %d", NoErr),
                          j + 1)
                 ELSE IF avail < length
                 THEN Ret(Nil, Errorf("%w: expected %d bytes for string, got %d",
                                      ErrUnexpectedEOF0), Len(b) + 1)
                 ELSE Ret(Bytes(Slice(b, j + 1, j + length)), NoErr, j + length + 1)

\* Decode0Integer leaving the terminating 'e' unread: the variant in which a
\* call does not consume the whole item.
Decode0IntegerKeepE(b, p) ==
    LET j == IndexFrom(b, p + 1, "e")
    IN  IF j = 0
        THEN Ret(Nil, Errorf("%w: integer not terminated by 'e'", ErrUnexpectedEOF0),
                 Len(b) + 1)
        ELSE LET numString == Slice(b, p + 1, j - 1)
                 conv      == ParseInt(numString)
             IN  IF Len(numString) = 0
                 THEN Ret(Nil, Errorf("%w: empty integer", ErrInvalidInteger0), j + 1)
                 ELSE IF ~conv.ok
                 THEN Ret(Nil, Errorf("%w: %s (%v)", ErrInvalidInteger0), j + 1)
                 ELSE IF Len(numString) > 1 /\ ( \/ HasPrefix(numString, <<"0">>)
                                                 \/ HasPrefix(numString, <<"-", "0">>) )
                 THEN Ret(Nil, Errorf("%w: invalid format %s", ErrInvalidInteger0), j + 1)
                 ELSE Ret(Int64(conv.n), NoErr, j)

\* case token == 'i'
Decode0Integer(b, p) ==
    LET j == IndexFrom(b, p + 1, "e")
    IN  IF j = 0
        THEN Ret(Nil, Errorf("%w: integer not terminated by 'e'", ErrUnexpectedEOF0),
                 Len(b) + 1)
        ELSE LET numString == Slice(b, p + 1, j - 1)
                 conv      == ParseInt(numString)
             IN  IF Len(numString) = 0
                 THEN Ret(Nil, Errorf("%w: empty integer", ErrInvalidInteger0), j + 1)
                 ELSE IF ~conv.ok
                 THEN Ret(Nil, Errorf("%w: %s (%v)", ErrInvalidInteger0), j + 1)
                 ELSE IF Len(numString) > 1 /\ ( \/ HasPrefix(numString, <<"0">>)
                                                 \/ HasPrefix(numString, <<"-", "0">>) )
                 THEN Ret(Nil, Errorf("%w: invalid format %s", ErrInvalidInteger0), j + 1)
                 ELSE Ret(Int64(conv.n), NoErr, j + 1)

\* case token == 'l'
Decode0List(b, p, list) ==
    IF p > Len(b)
    THEN Ret(Nil, Errorf("%w: list not terminated by 'e'", ErrUnexpectedEOF0), p)
    ELSE IF b[p] = "e"
    THEN Ret(List(list), NoErr, p + 1)
    ELSE LET item == Decode0(b, p)
         IN  IF item.err # NoErr
             THEN IF item.err = ErrNullRootValue0
                  THEN Ret(Nil, Errorf("%w: unexpected end of list", ErrUnexpectedEOF0),
                           item.pos)
                  ELSE Ret(Nil, item.err, item.pos)
             ELSE Decode0List(b, item.pos, Append(list, item.val))

\* case token == 'd'
Decode0Dict(b, p, dict, prevKey, firstKey) ==
    IF p > Len(b)
    THEN Ret(Nil, Errorf("%w: dictionary not terminated by 'e'", ErrUnexpectedEOF0), p)
    ELSE IF b[p] = "e"
    THEN Ret(Dict(dict), NoErr, p + 1)
    ELSE LET keyVal == Decode0(b, p)
         IN  IF keyVal.err # NoErr
             THEN IF keyVal.err = ErrNullRootValue0
                  THEN Ret(Nil, Errorf("%w: unexpected end of dictionary, expected key",
                                       ErrUnexpectedEOF0), keyVal.pos)
                  ELSE Ret(Nil, keyVal.err, keyVal.pos)
             ELSE IF keyVal.val.kind # "[]byte"
             THEN Ret(Nil, Errorf("%w: key %v (type %T) is not a string",
                                  ErrInvalidDictionaryKey0), keyVal.pos)
             ELSE LET strKey == keyVal.val.b
                      value  == Decode0(b, keyVal.pos)
                  IN  IF strKey \in DOMAIN dict
                      THEN Ret(Nil, Errorf("%w: key %q", ErrDuplicateDictionaryKey0),
                               keyVal.pos)
                      ELSE IF ~firstKey /\ StrGeq(prevKey, strKey)
                      THEN Ret(Nil, Errorf("%w: key %q is not lexicographically after %q",
                                           ErrDictionaryKeysNotSorted0), keyVal.pos)
                      ELSE IF value.err # NoErr
                      THEN IF value.err = ErrNullRootValue0
                           THEN Ret(Nil, Errorf("%w for key %q: %v",
                                                ErrMissingDictionaryValue0), value.pos)
                           ELSE Ret(Nil, Errorf("bencode: error decoding value for key %q: %w",
                                                value.err), value.pos)
                      ELSE Decode0Dict(b, value.pos, MapSet(dict, strKey, value.val),
                                       strKey, FALSE)

\* Decode of bencode.go with an end of input read as an empty string: the
\* variant in which a call succeeds without consuming a byte.
Decode0EmptyOk(b, p) ==
    IF p > Len(b) THEN Ret(Bytes(<<>>), NoErr, p)
    ELSE LET token == b[p]
         IN  IF IsDigit(token) THEN Decode0String(b, p)
             ELSE IF token = "i" THEN Decode0Integer(b, p)
             ELSE IF token = "l" THEN Decode0List(b, p + 1, <<>>)
             ELSE IF token = "d" THEN Decode0Dict(b, p + 1, EmptyMap, <<>>, TRUE)
             ELSE Ret(Nil, Errorf("%w: unexpected token %q", ErrInvalidType0), p)

\* Decoder.Decode of bencode.go: peek one byte and dispatch.
Decode0(b, p) ==
    IF p > Len(b) THEN Ret(Nil, ErrNullRootValue0, p)
    ELSE LET token == b[p]
         IN  IF IsDigit(token) THEN Decode0String(b, p)
             ELSE IF token = "i" THEN Decode0Integer(b, p)
             ELSE IF token = "l" THEN Decode0List(b, p + 1, <<>>)
             ELSE IF token = "d" THEN Decode0Dict(b, p + 1, EmptyMap, <<>>, TRUE)
             ELSE Ret(Nil, Errorf("%w: unexpected token %q", ErrInvalidType0), p)

\* Unmarshal of bencode.go: one Decode on a reader over data.
Unmarshal0(bytes) == Decode0(bytes, 1)

-----------------------------------------------------------------------------
(* Go types and typed values, as reflect sees them. *)

Basic(kind)     == [kind |-> kind]
SliceOf(elem)   == [kind |-> "slice", elem |-> elem]
MapOf(key, elem) == [kind |-> "map", key |-> key, elem |-> elem]
PtrTo(elem)     == [kind |-> "ptr", elem |-> elem]
AnyType         == [kind |-> "interface"]
\* A struct field: its declared name, the value of its `bencode` tag key (empty
\* when the field has none), its type, and whether its name is exported.
Field(name, tag, typ, exported) ==
    [Name |-> name, Tag |-> tag, Type |-> typ, IsExported |-> exported]
StructOf(name, fields) == [kind |-> "struct", name |-> name, fields |-> fields]

SignedKinds   == {"int", "int8", "int16", "int32", "int64"}
UnsignedKinds == {"uint", "uint8", "uint16", "uint32", "uint64"}

IntV(typ, n)              == [typ |-> typ, n |-> n]
StrV(str)                 == [typ |-> Basic("string"), s |-> str]
SliceV(typ, isNil, items) == [typ |-> typ, isNil |-> isNil, items |-> items]
MapV(typ, isNil, m)       == [typ |-> typ, isNilMap |-> isNil, m |-> m]
StructV(typ, fields)      == [typ |-> typ, fields |-> fields]
\* An interface value: dyn is the typed value it holds, or Nil.
AnyV(dyn)                 == [typ |-> AnyType, dyn |-> dyn]
\* A pointer: target is the value it points to, or Nil for a nil pointer.
PtrV(typ, target)         == [typ |-> typ, target |-> target]
\* Values of kinds the codec does not support (bool, chan, func).
OtherV(typ)               == [typ |-> typ, opaque |-> TRUE]

ByteSliceType == SliceOf(Basic("uint8"))

\* The byte with numeric value n, and []byte(s) as a typed value.
ByteOf(n) == Ascii[n - 31]
ByteSliceV(str) ==
    SliceV(ByteSliceType, FALSE, [i \in 1..Len(str) |-> IntV(Basic("uint8"), ByteVal(str[i]))])
\* string(b) for a []byte value b.
BytesOf(v) == [i \in 1..Len(v.items) |-> ByteOf(v.items[i].n)]

\* reflect.Zero(typ)
RECURSIVE Zero(_)
Zero(typ) ==
    CASE typ.kind \in SignedKinds \cup UnsignedKinds -> IntV(typ, 0)
      [] typ.kind = "string"    -> StrV(<<>>)
      [] typ.kind = "slice"     -> SliceV(typ, TRUE, <<>>)
      [] typ.kind = "map"       -> MapV(typ, TRUE, EmptyMap)
      [] typ.kind = "struct"    ->
            StructV(typ, [i \in 1..Len(typ.fields) |-> Zero(typ.fields[i].Type)])
      [] typ.kind = "interface" -> AnyV(Nil)
      [] typ.kind = "ptr"       -> PtrV(typ, Nil)
      [] OTHER                  -> OtherV(typ)

\* The Go value an `any` returned by decode() holds: []byte, int64, []any
\* (nil when no item was appended) or map[string]any.
RECURSIVE GoValue(_)
GoValue(g) ==
    CASE g.kind = "[]byte" -> ByteSliceV(g.b)
      [] g.kind = "int64"  -> IntV(Basic("int64"), g.n)
      [] g.kind = "[]any"  ->
            SliceV(SliceOf(AnyType), g.items = <<>>,
                   [i \in 1..Len(g.items) |-> AnyV(GoValue(g.items[i]))])
      [] g.kind = "map[string]any" ->
            MapV(MapOf(Basic("string"), AnyType), FALSE,
                 [k \in DOMAIN g.m |-> AnyV(GoValue(g.m[k]))])

-----------------------------------------------------------------------------
(* strings *)

\* strings.TrimSpace on the ASCII space.
RECURSIVE TrimLeft(_)
TrimLeft(str) == IF str # <<>> /\ str[1] = " " THEN TrimLeft(Tail(str)) ELSE str
RECURSIVE TrimRight(_)
TrimRight(str) ==
    IF str # <<>> /\ str[Len(str)] = " " THEN TrimRight(SubSeq(str, 1, Len(str) - 1)) ELSE str
TrimSpace(str) == TrimRight(TrimLeft(str))

\* strings.Cut(str, sep) for a one-byte sep: before, after, found.
Cut(str, sep) ==
    LET j == IndexFrom(str, 1, sep)
    IN  IF j = 0 THEN [before |-> str, after |-> <<>>, found |-> FALSE]
        ELSE [before |-> Slice(str, 1, j - 1), after |-> Slice(str, j + 1, Len(str)),
              found |-> TRUE]

\* strings.Split(str, sep) for a one-byte sep.
RECURSIVE Split(_, _)
Split(str, sep) ==
    LET c == Cut(str, sep)
    IN  IF c.found THEN <<c.before>> \o Split(c.after, sep) ELSE <<str>>

\* strings.Compare(a, b)
Compare(a, b) == IF StrLess(a, b) THEN -1 ELSE IF a = b THEN 0 ELSE 1

-----------------------------------------------------------------------------
(* The struct metadata cache *)

bencodeTagRequired  == <<"r", "e", "q", "u", "i", "r", "e", "d">>
bencodeTagOmitEmpty == <<"o", "m", "i", "t", "e", "m", "p", "t", "y">>
bencodeTagSeparator == ","
bencodeTagIgnore    == <<"-">>

\* The same parse, were only a lone option after the key to count: required when
\* the whole text after the first separator is the word required.
parseTagValueLoneOption(tagValue) ==
    IF tagValue = <<>> \/ tagValue = bencodeTagIgnore
    THEN [name |-> <<>>, required |-> FALSE, omitEmpty |-> FALSE]
    ELSE LET c == Cut(tagValue, bencodeTagSeparator)
         IN  [name      |-> TrimSpace(c.before),
              required  |-> c.found /\ TrimSpace(c.after) = bencodeTagRequired,
              omitEmpty |-> c.found /\ TrimSpace(c.after) = bencodeTagOmitEmpty]

parseTagValue(tagValue) ==
    IF tagValue = <<>> \/ tagValue = bencodeTagIgnore
    THEN [name |-> <<>>, required |-> FALSE, omitEmpty |-> FALSE]
    ELSE LET c     == Cut(tagValue, bencodeTagSeparator)
             parts == IF c.found THEN Split(c.after, bencodeTagSeparator) ELSE <<>>
         IN  [name      |-> TrimSpace(c.before),
              required  |-> \E i \in 1..Len(parts) : TrimSpace(parts[i]) = bencodeTagRequired,
              omitEmpty |-> \E i \in 1..Len(parts) : TrimSpace(parts[i]) = bencodeTagOmitEmpty]

\* The descriptor of field i (1-based here, index keeps Go's 0-based number).
cachedStructFieldInfo(typ, i) ==
    LET field == typ.fields[i]
        tag   == parseTagValue(field.Tag)
    IN  [fieldName  |-> field.Name,
         bencodeTag |-> IF tag.name = <<>> THEN field.Name ELSE tag.name,
         index      |-> i - 1,
         typ        |-> field.Type,
         required   |-> tag.required,
         omitEmpty  |-> tag.omitEmpty]

\* slices.SortFunc by strings.Compare of the wire keys: an insertion sort, which
\* is what the standard library runs on fewer than 12 elements.
RECURSIVE InsertField(_, _)
InsertField(sorted, f) ==
    IF sorted = <<>> THEN <<f>>
    ELSE IF Compare(f.bencodeTag, sorted[Len(sorted)].bencodeTag) < 0
    THEN Append(InsertField(SubSeq(sorted, 1, Len(sorted) - 1), f), sorted[Len(sorted)])
    ELSE Append(sorted, f)

\* The list as collected, in declaration order.
SortFieldsKeep(fields, sorted) == sorted \o fields

RECURSIVE SortFields(_, _)
SortFields(fields, sorted) ==
    IF fields = <<>> THEN sorted
    ELSE SortFields(Tail(fields), InsertField(sorted, Head(fields)))

\* The loop over typ's fields: the descriptors of the exported ones, in order.
RECURSIVE collectFields(_, _)
collectFields(typ, i) ==
    IF i > Len(typ.fields) THEN <<>>
    ELSE IF ~typ.fields[i].IsExported THEN collectFields(typ, i + 1)
    ELSE <<cachedStructFieldInfo(typ, i)>> \o collectFields(typ, i + 1)

\* getCachedStructInfo(typ): the list a miss computes and every later hit returns.
getCachedStructInfo(typ) == SortFields(collectFields(typ, 1), <<>>)

-----------------------------------------------------------------------------
(* The encoder *)

ErrEncodeUnsupportedType == "encode: unsupported type"
ErrEncodeMapKeyNotString == "encode: map key not string"
ErrEncodeWriteError      == "encode: write error"

\* An io.Writer: the bytes written so far, the number of Write calls that
\* still succeed (Unlimited for a bytes.Buffer, whose Write never fails), and
\* the numbers of Write calls that succeeded and that failed.
Unlimited == -1
Writer(buf, left) == [buf |-> buf, left |-> left, done |-> 0, failed |-> 0]
WriteFail == [id |-> "io", Msg |-> "write failed"]
\* w.Write(p): the writer afterwards and the error.
Write(w, p) ==
    IF w.left = 0 THEN [w |-> [w EXCEPT !.failed = @ + 1], err |-> WriteFail]
    ELSE [w |-> [w EXCEPT !.buf = @ \o p,
                          !.left = IF @ = Unlimited THEN Unlimited ELSE @ - 1,
                          !.done = @ + 1],
          err |-> NoErr]

\* fmt.Fprintf(w, "%d:%s", len(str), str) and fmt.Fprintf(w, "i%de", n): each
\* formats into a buffer and issues one Write.
FormatString(str)  == FormatInt(Len(str)) \o <<":">> \o str
FormatInteger(n)   == <<"i">> \o FormatInt(n) \o <<"e">>

\* slices.Sort of a set of distinct strings.
RECURSIVE SortStrings(_)
SortStrings(keys) ==
    IF keys = {} THEN <<>>
    ELSE LET least == CHOOSE k \in keys : \A o \in keys : o = k \/ StrLess(k, o)
         IN  <<least>> \o SortStrings(keys \ {least})

\* The error of a failed value, with the enclosing key filled in when the
\* error names no field yet.
WithFieldName(err, key) ==
    IF err.FieldName = <<>> THEN [err EXCEPT !.FieldName = key] ELSE err

EncRet(w, err) == [w |-> w, err |-> err]

\* The order in which a range over a Go map visits the keys is unspecified, so
\* the caller supplies it: one of the orders a run may yield.
Reverse(xs) == [i \in 1..Len(xs) |-> xs[Len(xs) + 1 - i]]
MapOrders == {"ascending", "descending"}
MapRange(m, ord) ==
    IF ord = "ascending" THEN SortStrings(DOMAIN m) ELSE Reverse(SortStrings(DOMAIN m))

\* val.MapKeys(), each key as a string.
MapKeys(m, ord) == MapRange(m, ord)

RECURSIVE InsertKey(_, _)
InsertKey(sorted, k) ==
    IF sorted = <<>> THEN <<k>>
    ELSE IF StrLess(k, sorted[Len(sorted)])
    THEN Append(InsertKey(SubSeq(sorted, 1, Len(sorted) - 1), k), sorted[Len(sorted)])
    ELSE Append(sorted, k)

\* The keys as collected, in the order the map yielded them.
SortKeysKeep(keys, sorted) == sorted \o keys

\* slices.Sort(sortedKeys)
RECURSIVE SortKeys(_, _)
SortKeys(keys, sorted) ==
    IF keys = <<>> THEN sorted
    ELSE SortKeys(Tail(keys), InsertKey(sorted, Head(keys)))

RECURSIVE Encode(_, _, _)
RECURSIVE encodeSlice(_, _, _, _)
RECURSIVE encodeMap(_, _, _, _, _)
RECURSIVE encodeStruct(_, _, _, _, _)

\* The same loop, were it to go on to the remaining elements and the end token
\* after an element has failed, and report the first error at the end.
encodeSliceGoOn(val, i, w, ord) ==
    IF i > Len(val.items)
    THEN LET r == Write(w, <<"e">>)
         IN  IF r.err # NoErr
             THEN EncRet(r.w, NewError(ErrEncodeWriteError,
                                       "failed to write list end token 'e'", <<>>, r.err))
             ELSE EncRet(r.w, NoErr)
    ELSE LET r == Encode(val.items[i], w, ord)
         IN  IF r.err # NoErr THEN EncRet(encodeSlice(val, i + 1, r.w, ord).w, r.err)
             ELSE encodeSlice(val, i + 1, r.w, ord)

\* for i := range val.Len() { Encode(val.Index(i).Interface()) }; write 'e'
encodeSlice(val, i, w, ord) ==
    IF i > Len(val.items)
    THEN LET r == Write(w, <<"e">>)
         IN  IF r.err # NoErr
             THEN EncRet(r.w, NewError(ErrEncodeWriteError,
                                       "failed to write list end token 'e'", <<>>, r.err))
             ELSE EncRet(r.w, NoErr)
    ELSE LET r == Encode(val.items[i], w, ord)
         IN  IF r.err # NoErr THEN r ELSE encodeSlice(val, i + 1, r.w, ord)

\* for _, keyStr := range sortedKeys { write key; Encode(value) }; write 'e'
encodeMap(val, sortedKeys, i, w, ord) ==
    IF i > Len(sortedKeys)
    THEN LET r == Write(w, <<"e">>)
         IN  IF r.err # NoErr
             THEN EncRet(r.w, NewError(ErrEncodeWriteError,
                                       "failed to write dictionary end token 'e'", <<>>, r.err))
             ELSE EncRet(r.w, NoErr)
    ELSE LET keyStr == sortedKeys[i]
             k      == Write(w, FormatString(keyStr))
         IN  IF k.err # NoErr
             THEN EncRet(k.w, NewError(ErrEncodeWriteError,
                                       "failed to write dictionary key %q", keyStr, k.err))
             ELSE LET r == Encode(val.m[keyStr], k.w, ord)
                  IN  IF r.err # NoErr THEN EncRet(r.w, WithFieldName(r.err, keyStr))
                      ELSE encodeMap(val, sortedKeys, i + 1, r.w, ord)

\* The same loop, were it to pass over every field that holds its type's zero
\* value and is not required.
encodeStructOmitZero(val, cachedFields, i, w, ord) ==
    IF i > Len(cachedFields)
    THEN LET r == Write(w, <<"e">>)
         IN  IF r.err # NoErr
             THEN EncRet(r.w, NewError(ErrEncodeWriteError,
                                       "failed to write dictionary end token 'e' for struct",
                                       <<>>, r.err))
             ELSE EncRet(r.w, NoErr)
    ELSE LET fieldInfo == cachedFields[i]
             fieldVal  == val.fields[fieldInfo.index + 1]
             k         == Write(w, FormatString(fieldInfo.bencodeTag))
         IN  IF ~fieldInfo.required /\ fieldVal = Zero(fieldInfo.typ)
             THEN encodeStruct(val, cachedFields, i + 1, w, ord)
             ELSE IF k.err # NoErr
             THEN EncRet(k.w, NewError(ErrEncodeWriteError,
                                       "failed to write struct field key %q",
                                       fieldInfo.bencodeTag, k.err))
             ELSE LET r == Encode(fieldVal, k.w, ord)
                  IN  IF r.err # NoErr
                      THEN EncRet(r.w, WithFieldName(r.err, fieldInfo.bencodeTag))
                      ELSE encodeStruct(val, cachedFields, i + 1, r.w, ord)

\* for _, fieldInfo := range cachedFields { write key; Encode(field) }; write 'e'
encodeStruct(val, cachedFields, i, w, ord) ==
    IF i > Len(cachedFields)
    THEN LET r == Write(w, <<"e">>)
         IN  IF r.err # NoErr
             THEN EncRet(r.w, NewError(ErrEncodeWriteError,
                                       "failed to write dictionary end token 'e' for struct",
                                       <<>>, r.err))
             ELSE EncRet(r.w, NoErr)
    ELSE LET fieldInfo == cachedFields[i]
             fieldVal  == val.fields[fieldInfo.index + 1]
             k         == Write(w, FormatString(fieldInfo.bencodeTag))
         IN  IF k.err # NoErr
             THEN EncRet(k.w, NewError(ErrEncodeWriteError,
                                       "failed to write struct field key %q",
                                       fieldInfo.bencodeTag, k.err))
             ELSE LET r == Encode(fieldVal, k.w, ord)
                  IN  IF r.err # NoErr
                      THEN EncRet(r.w, WithFieldName(r.err, fieldInfo.bencodeTag))
                      ELSE encodeStruct(val, cachedFields, i + 1, r.w, ord)

\* Encode(v) on an encoder over writer w, in a run whose maps yield their keys
\* in order ord. A value of interface type stands for
\* what Interface() hands to the recursive call: the value it holds.
Encode(v, w, ord) ==
    IF v = Nil
    THEN EncRet(w, NewError(ErrEncodeUnsupportedType, "cannot marshal type %T (%s)", <<>>, NoErr))
    ELSE IF v.typ.kind = "interface" THEN Encode(v.dyn, w, ord)
    ELSE IF v.typ.kind \in SignedKinds \cup UnsignedKinds
    THEN LET r == Write(w, FormatInteger(v.n))
         IN  IF r.err # NoErr
             THEN EncRet(r.w, NewError(ErrEncodeWriteError, "failed to write integer", <<>>, r.err))
             ELSE EncRet(r.w, NoErr)
    ELSE IF v.typ.kind = "string"
    THEN LET r == Write(w, FormatString(v.s))
         IN  IF r.err # NoErr
             THEN EncRet(r.w, NewError(ErrEncodeWriteError, "failed to write string", <<>>, r.err))
             ELSE EncRet(r.w, NoErr)
    ELSE IF v.typ = ByteSliceType
    THEN LET r == Write(w, FormatString(BytesOf(v)))
         IN  IF r.err # NoErr
             THEN EncRet(r.w, NewError(ErrEncodeWriteError, "failed to write byte slice",
                                       <<>>, r.err))
             ELSE EncRet(r.w, NoErr)
    ELSE IF v.typ.kind = "slice"
    THEN LET r == Write(w, <<"l">>)
         IN  IF r.err # NoErr
             THEN EncRet(r.w, NewError(ErrEncodeWriteError,
                                       "failed to write list start token 'l'", <<>>, r.err))
             ELSE encodeSlice(v, 1, r.w, ord)
    ELSE IF v.typ.kind = "map"
    THEN IF v.typ.key.kind # "string"
         THEN EncRet(w, NewError(ErrEncodeMapKeyNotString,
                                 "map key type %s is not supported; only string keys are allowed",
                                 <<>>, NoErr))
         ELSE LET sortedKeys == SortKeys(MapKeys(v.m, ord), <<>>)
                  r          == Write(w, <<"d">>)
              IN  IF r.err # NoErr
                  THEN EncRet(r.w, NewError(ErrEncodeWriteError,
                                            "failed to write dictionary start token 'd'",
                                            <<>>, r.err))
                  ELSE encodeMap(v, sortedKeys, 1, r.w, ord)
    ELSE IF v.typ.kind = "struct"
    THEN LET r == Write(w, <<"d">>)
         IN  IF r.err # NoErr
             THEN EncRet(r.w, NewError(ErrEncodeWriteError,
                                       "failed to write dictionary start token 'd' for struct",
                                       <<>>, r.err))
             ELSE encodeStruct(v, getCachedStructInfo(v.typ), 1, r.w, ord)
    ELSE EncRet(w, NewError(ErrEncodeUnsupportedType, "cannot marshal type %T (%s)", <<>>, NoErr))

\* The same call, were it to hand out the buffer's bytes with the error too.
MarshalKeepBytes(v, ord) ==
    LET r == Encode(v, Writer(<<>>, Unlimited), ord)
    IN  [bytes |-> r.w.buf, err |-> r.err]

\* Marshal(v): Encode into a bytes.Buffer; the bytes, or none with the error.
Marshal(v, ord) ==
    LET r == Encode(v, Writer(<<>>, Unlimited), ord)
    IN  IF r.err # NoErr THEN [bytes |-> <<>>, err |-> r.err]
        ELSE [bytes |-> r.w.buf, err |-> NoErr]

-----------------------------------------------------------------------------
(* Binding a decoded value to a typed destination *)

\* A destination that every integer fits.
OverflowIntNever(kind, x) == FALSE

\* reflect's OverflowInt / OverflowUint for a destination of the given kind;
\* the wider kinds hold every integer the model can draw.
OverflowInt(kind, x) ==
    CASE kind = "int8"  -> x < -128 \/ x > 127
      [] kind = "int16" -> x < -32768 \/ x > 32767
      [] OTHER          -> FALSE
OverflowUint(kind, x) ==
    CASE kind = "uint8"  -> x > 255
      [] kind = "uint16" -> x > 65535
      [] OTHER           -> FALSE

AssignRet(val, err) == [val |-> val, err |-> err]

RECURSIVE assignDecodedToValue(_, _, _)
RECURSIVE assignSlice(_, _, _, _, _)
RECURSIVE assignMap(_, _, _, _, _, _)
RECURSIVE populateStruct(_, _, _, _)

\* The loop filling newSlice; val is the sequence of elements set so far.
assignSlice(elemType, srcSlice, i, newSlice, ord) ==
    IF i > Len(srcSlice) THEN AssignRet(newSlice, NoErr)
    ELSE LET r == assignDecodedToValue(Zero(elemType), srcSlice[i], ord)
         IN  IF r.err # NoErr
             THEN AssignRet(newSlice, NewError(r.err.Type, "decoding slice element %d",
                                               FormatInt(i - 1), r.err))
             ELSE assignSlice(elemType, srcSlice, i + 1, Append(newSlice, r.val), ord)

\* The loop filling newMap over the keys in the order keys.
assignMap(elemType, srcMap, keys, i, newMap, ord) ==
    IF i > Len(keys) THEN AssignRet(newMap, NoErr)
    ELSE LET key == keys[i]
             r   == assignDecodedToValue(Zero(elemType), srcMap[key], ord)
         IN  IF r.err # NoErr
             THEN AssignRet(newMap, NewError(r.err.Type, "decoding map value for key %q",
                                             key, r.err))
             ELSE assignMap(elemType, srcMap, keys, i + 1, MapSet(newMap, key, r.val), ord)

\* populateStruct from field i on: structVal is updated field by field, and a
\* failure returns it as the fields before the failing one left it.
populateStruct(structVal, dictData, i, ord) ==
    LET typ == structVal.typ
    IN  IF i > Len(typ.fields) THEN AssignRet(structVal, NoErr)
        ELSE LET fieldStructDef == typ.fields[i]
                 tag            == fieldStructDef.Tag
             IN  IF ~fieldStructDef.IsExported THEN populateStruct(structVal, dictData, i + 1, ord)
                 ELSE IF tag = <<>> THEN populateStruct(structVal, dictData, i + 1, ord)
                 ELSE IF tag \notin DOMAIN dictData
                 THEN populateStruct(structVal, dictData, i + 1, ord)
                 ELSE LET r == assignDecodedToValue(structVal.fields[i], dictData[tag], ord)
                          after == [structVal EXCEPT !.fields[i] = r.val]
                      IN  IF r.err # NoErr
                          THEN AssignRet(after, NewError(r.err.Type, "setting field %s (tag %q)",
                                                         tag, r.err))
                          ELSE populateStruct(after, dictData, i + 1, ord)

\* assignDecodedToValue(destVal, srcData): destVal afterwards and the error.
\* destVal is always valid and settable here (the target of a non-nil pointer,
\* a fresh element, or a field that passed CanSet), and srcData is never nil
\* (decode returns no nil value without an error).
assignDecodedToValue(destVal, srcData, ord) ==
    LET kind == destVal.typ.kind
    IN  IF kind = "string"
        THEN IF srcData.kind # "[]byte"
             THEN AssignRet(destVal, NewError(ErrUnmarshalType,
                                "expected []byte for string destination, got %T", <<>>, NoErr))
             ELSE AssignRet(StrV(srcData.b), NoErr)
        ELSE IF kind \in SignedKinds
        THEN IF srcData.kind # "int64"
             THEN AssignRet(destVal, NewError(ErrUnmarshalType,
                                "expected int64 for numeric type %s, got %T", <<>>, NoErr))
             ELSE IF OverflowInt(kind, srcData.n)
             THEN AssignRet(destVal, NewError(ErrUnmarshalOverflow,
                                "value %d overflows type %s", <<>>, NoErr))
             ELSE AssignRet(IntV(destVal.typ, srcData.n), NoErr)
        ELSE IF kind \in UnsignedKinds
        THEN IF srcData.kind # "int64"
             THEN AssignRet(destVal, NewError(ErrUnmarshalType,
                                "expected int64 for numeric type %s, got %T", <<>>, NoErr))
             ELSE IF srcData.n < 0
             THEN AssignRet(destVal, NewError(ErrUnmarshalType,
                                "cannot assign negative value %d to unsigned type %s",
                                <<>>, NoErr))
             ELSE IF OverflowUint(kind, srcData.n)
             THEN AssignRet(destVal, NewError(ErrUnmarshalOverflow,
                                "value %d overflows type %s", <<>>, NoErr))
             ELSE AssignRet(IntV(destVal.typ, srcData.n), NoErr)
        ELSE IF kind = "slice"
        THEN IF srcData.kind # "[]any"
             THEN AssignRet(destVal, NewError(ErrUnmarshalType,
                                "expected []any for slice destination, got %T", <<>>, NoErr))
             ELSE LET r == assignSlice(destVal.typ.elem, srcData.items, 1, <<>>, ord)
                  IN  IF r.err # NoErr THEN AssignRet(destVal, r.err)
                      ELSE AssignRet(SliceV(destVal.typ, FALSE, r.val), NoErr)
        ELSE IF kind = "map"
        THEN IF destVal.typ.key.kind # "string"
             THEN AssignRet(destVal, NewError(ErrUnmarshalMapKey,
                                "map keys must be strings for destination type %s, got key type %s",
                                <<>>, NoErr))
             ELSE IF srcData.kind # "map[string]any"
             THEN AssignRet(destVal, NewError(ErrUnmarshalType,
                                "expected map[string]any for map destination, got %T",
                                <<>>, NoErr))
             ELSE LET r == assignMap(destVal.typ.elem, srcData.m, MapRange(srcData.m, ord), 1,
                                     EmptyMap, ord)
                  IN  IF r.err # NoErr THEN AssignRet(destVal, r.err)
                      ELSE AssignRet(MapV(destVal.typ, FALSE, r.val), NoErr)
        ELSE IF kind = "struct"
        THEN IF srcData.kind # "map[string]any"
             THEN AssignRet(destVal, NewError(ErrUnmarshalType,
                                "expected map[string]any for struct destination %s, got %T",
                                <<>>, NoErr))
             ELSE populateStruct(destVal, srcData.m, 1, ord)
        ELSE IF kind # "interface"
        THEN AssignRet(destVal, NewError(ErrUnmarshalType,
                                "unhandled destination type %s (source type %s)", <<>>, NoErr))
        ELSE AssignRet(AnyV(GoValue(srcData)), NoErr)

\* Decode(v) on a decoder whose reader is at p in b: v afterwards, the error
\* and the reader's position.
Decode(b, p, v, ord) ==
    IF v.typ.kind # "ptr" \/ v.target = Nil
    THEN [val |-> v, err |-> NewError(ErrUsage, "expected a non-nil pointer, got %T", <<>>, NoErr),
          pos |-> p]
    ELSE LET decoded == decode(b, p)
         IN  IF decoded.err # NoErr THEN [val |-> v, err |-> decoded.err, pos |-> decoded.pos]
             ELSE LET r == assignDecodedToValue(v.target, decoded.val, ord)
                  IN  [val |-> [v EXCEPT !.target = r.val], err |-> r.err, pos |-> decoded.pos]

\* Unmarshal(data, v): Decode on a fresh decoder over data.
Unmarshal(bytes, v, ord) == Decode(bytes, 1, v, ord)

-----------------------------------------------------------------------------
(* Inputs *)

MaxBytes  == 3   \* longest input drawn byte by byte
MaxLit    == 3   \* longest integer literal drawn byte by byte
MaxPrefix == 2   \* longest string length prefix drawn byte by byte
MaxBody   == 2   \* most bytes following a length prefix
MaxPairs  == 3   \* most entries of a drawn dictionary
MaxItems  == 2   \* most items written to one stream
MaxCalls  == 3   \* most Decode calls on one Decoder
MaxOptions == 2  \* most options after the key of a field tag
MaxWrites == 3   \* most Write calls a failing sink lets succeed

SeqsUpTo(S, n) == UNION {[1..k -> S] : k \in 0..n}

RECURSIVE Flatten(_)
Flatten(xs) == IF xs = <<>> THEN <<>> ELSE Head(xs) \o Flatten(Tail(xs))

ByteAlphabet == {"i", "e", "l", "d", "0", "1", ":", "-"}
ByteInputs   == SeqsUpTo(ByteAlphabet, MaxBytes)

\* i<lit>e and the unterminated i<lit>, with two literals just outside int64.
LitAlphabet == {"0", "1", "9", "-", "+"}
DigitChars(ds) == [i \in 1..Len(ds) |-> Digits[ds[i] + 1]]
OutOfRange  == {DigitChars(MinInt64Digits),
                <<"-">> \o DigitChars(SubSeq(MinInt64Digits, 1, 18) \o <<9>>),
                DigitChars(Append(MaxInt64Digits, 0)),
                <<"-">> \o DigitChars(Append(MaxInt64Digits, 0))}
Literals    == SeqsUpTo(LitAlphabet, MaxLit) \cup OutOfRange
IntInputs   == {<<"i">> \o lit \o <<"e">> : lit \in Literals}
                   \cup {<<"i">> \o lit : lit \in SeqsUpTo(LitAlphabet, 1)}

RawInputs == ByteInputs \cup IntInputs

\* A byte-string token <prefix>:<body> written where a value or a key is
\* expected: at top level, or after the opening bytes of lists and
\* dictionaries, with bodies shorter than, equal to and longer than declared.
PrefixAlphabet == {"0", "1", "2", "-"}
Prefixes       == SeqsUpTo(PrefixAlphabet, MaxPrefix) \ {<<>>}
Bodies         == {SubSeq(<<"a", "b", "c", "d">>, 1, k) : k \in 0..MaxBody}
Nestings       == {<<>>, <<"l">>, <<"l", "l">>, <<"d", "1", ":", "a">>, <<"l", "i", "0", "e">>, <<"d", "1", ":", "a", "l">>, <<"l", "d">>, <<"d", "0", ":", "0", ":">>}
Closings       == {<<>>, <<"e">>, <<"e", "e">>, <<"i", "0", "e", "e">>}
Token(pre, len, body, post) == [pre |-> pre, len |-> len, body |-> body, post |-> post]
TokenBytes(t)  == t.pre \o t.len \o <<":">> \o t.body \o t.post
NestedTokens   == {Token(pre, len, body, post) :
                       pre \in Nestings, len \in Prefixes, body \in Bodies, post \in Closings}

\* A dictionary d<entries>[e]: each entry a key followed by an encoded value,
\* or by nothing where the value should be.
DictKeys    == {<<>>, <<"a">>, <<"b">>}
DictValues  == {<<"i", "0", "e">>, <<"d", "1", ":", "a", "i", "0", "e", "e">>, <<>>}
Entry(key, value) == [key |-> key, value |-> value]
DictEntries == {Entry(k, v) : k \in DictKeys, v \in DictValues}
EntryBytes(e) == FormatString(e.key) \o e.value
DictBytes(es, post) == <<"d">> \o Flatten([i \in 1..Len(es) |-> EntryBytes(es[i])]) \o post

\* The values a sender writes to a stream, one encoding after the other.
ItemCatalogue ==
    {Bytes(<<>>), Bytes(<<"a", "b">>), Int64(0), Int64(-12), List(<<>>),
     List(<<Int64(1), Bytes(<<"e">>)>>),
     Dict(MapSet(MapSet(EmptyMap, <<"b">>, List(<<>>)), <<"a">>, Int64(7)))}
Stream(items) ==
    Flatten([i \in 1..Len(items) |-> Marshal(GoValue(items[i]), "ascending").bytes])
Trailing      == {<<>>, <<"x">>, <<"i">>}
\* What is left of a stream cut off after k bytes.
Truncated(bytes, k) == SubSeq(bytes, 1, k)

\* Struct types of a client program, after the README's and the tests' examples.
Person ==
    StructOf("Person", <<Field(<<"N", "a", "m", "e">>, <<"n", "a", "m", "e">>, Basic("string"), TRUE),
                         Field(<<"A", "g", "e">>, <<"a", "g", "e">>, Basic("int"), TRUE)>>)
MyStruct ==
    StructOf("MyStruct", <<Field(<<"N", "a", "m", "e">>, <<"n", "a", "m", "e", ",", "r", "e", "q", "u", "i", "r", "e", "d">>, Basic("string"), TRUE),
                           Field(<<"A", "g", "e">>, <<"a", "g", "e">>, Basic("int"), TRUE)>>)
OptionalRequired ==
    StructOf("OptionalRequired",
             <<Field(<<"N", "a", "m", "e">>, <<"n", "a", "m", "e", ",", "o", "m", "i", "t", "e", "m", "p", "t", "y", ",", "r", "e", "q", "u", "i", "r", "e", "d">>, Basic("string"), TRUE),
               Field(<<"A", "g", "e">>, <<"a", "g", "e", ",", "o", "m", "i", "t", "e", "m", "p", "t", "y">>, Basic("int"), TRUE)>>)
TwoRequired ==
    StructOf("TwoRequired", <<Field(<<"N", "a", "m", "e">>, <<"n", "a", "m", "e", ",", "r", "e", "q", "u", "i", "r", "e", "d">>, Basic("string"), TRUE),
                              Field(<<"A", "g", "e">>, <<"a", "g", "e", ",", " ", "r", "e", "q", "u", "i", "r", "e", "d">>, Basic("int"), TRUE)>>)
Untagged ==
    StructOf("Untagged", <<Field(<<"X">>, <<>>, Basic("int"), TRUE),
                           Field(<<"y">>, <<"y">>, Basic("int"), FALSE),
                           Field(<<"S", "k", "i", "p">>, <<"-">>, Basic("string"), TRUE)>>)
\* TestEncodeZeroValue's struct, and one whose fields are declared against the
\* order of their wire keys.
NonRequiredStruct ==
    StructOf("NonRequiredStruct", <<Field(<<"V", "a", "l", "u", "e">>, <<"v", "a", "l", "u", "e">>, Basic("int"), TRUE)>>)
ZebraApple ==
    StructOf("ZebraApple", <<Field(<<"Z", "e", "b", "r", "a">>, <<"z", "e", "b", "r", "a">>, Basic("string"), TRUE),
                             Field(<<"A", "p", "p", "l", "e">>, <<"a", "p", "p", "l", "e">>, Basic("int"), TRUE)>>)
\* Struct types with one field K whose tag is the key k followed by up to
\* MaxOptions options.
TagOptions ==
    {bencodeTagRequired, bencodeTagOmitEmpty, <<" ">> \o bencodeTagRequired, <<"x">>}
TagText(opts) == <<"k">> \o Flatten([i \in 1..Len(opts) |-> <<bencodeTagSeparator>> \o opts[i]])
Tagged(opts) == StructOf("Tagged", <<Field(<<"K">>, TagText(opts), Basic("int"), TRUE)>>)
TagTypes == {Tagged(opts) : opts \in SeqsUpTo(TagOptions, MaxOptions)}
\* A struct that holds a list after a string.
Holder ==
    StructOf("Holder", <<Field(<<"N", "a", "m", "e">>, <<"n", "a", "m", "e">>, Basic("string"), TRUE),
                         Field(<<"I", "t", "e", "m", "s">>, <<"i", "t", "e", "m", "s">>, SliceOf(Basic("int8")), TRUE)>>)
\* A struct whose two fields resolve to the same wire key.
DupKeys ==
    StructOf("DupKeys", <<Field(<<"A">>, <<"k">>, Basic("int"), TRUE),
                          Field(<<"B">>, <<"k">>, Basic("int"), TRUE)>>)
StructTypes == {Person, MyStruct, OptionalRequired, TwoRequired, Untagged, NonRequiredStruct,
                ZebraApple}

Ints(typ)    == {IntV(typ, n) : n \in {-1, 0, 42}}
NameValues   == {StrV(<<>>), StrV(<<"J", "o">>)}
AgeValues    == {IntV(Basic("int"), 0), IntV(Basic("int"), 25)}
StructValues ==
    {StructV(typ, <<name, age>>) :
         typ \in {Person, MyStruct, OptionalRequired, TwoRequired}, name \in NameValues,
         age \in AgeValues}
        \cup {StructV(Untagged, <<IntV(Basic("int"), x), IntV(Basic("int"), 0), StrV(<<>>)>>) :
                  x \in {0, 5}}
        \cup {StructV(NonRequiredStruct, <<age>>) : age \in AgeValues}
        \cup {StructV(typ, <<IntV(Basic("int"), 7)>>) : typ \in TagTypes}
        \cup {StructV(DupKeys, <<IntV(Basic("int"), 1), IntV(Basic("int"), 2)>>)}
        \cup {StructV(ZebraApple, <<name, age>>) : name \in NameValues, age \in AgeValues}

\* The values a client hands to Marshal.
ValueCatalogue ==
    Ints(Basic("int")) \cup Ints(Basic("int8")) \cup {IntV(Basic("uint8"), 200)}
        \cup {IntV(Basic("int64"), -100), IntV(Basic("uint16"), 1000)}
        \cup {StrV(<<>>), StrV(<<"s", "p", "a", "m">>), ByteSliceV(<<>>), ByteSliceV(<<"a">>)}
        \cup {SliceV(SliceOf(Basic("int")), TRUE, <<>>),
              SliceV(SliceOf(Basic("int")), FALSE, <<>>),
              SliceV(SliceOf(Basic("int")), FALSE, <<IntV(Basic("int"), 1), IntV(Basic("int"), 2)>>),
              SliceV(SliceOf(Basic("string")), FALSE, <<StrV(<<"a">>)>>),
              SliceV(SliceOf(AnyType), FALSE, <<AnyV(StrV(<<"a">>)), AnyV(Nil)>>)}
        \cup {MapV(MapOf(Basic("string"), Basic("int")), TRUE, EmptyMap),
              MapV(MapOf(Basic("string"), Basic("int")), FALSE,
                   MapSet(MapSet(EmptyMap, <<"b">>, IntV(Basic("int"), 2)),
                          <<"a">>, IntV(Basic("int"), 1))),
              MapV(MapOf(Basic("string"), Basic("bool")), FALSE,
                   MapSet(EmptyMap, <<"k">>, OtherV(Basic("bool")))),
              MapV(MapOf(Basic("int"), Basic("int")), FALSE, EmptyMap)}
        \cup StructValues
        \cup {OtherV(Basic("bool")), OtherV(Basic("chan")), OtherV(Basic("func")),
              PtrV(PtrTo(Basic("int")), IntV(Basic("int"), 1)), AnyV(Nil), Nil}
        \cup {MapV(MapOf(Basic("int"), Basic("string")), FALSE,
                   MapSet(EmptyMap, FormatInt(1), StrV(<<"a">>))),
              SliceV(SliceOf(AnyType), FALSE, <<AnyV(OtherV(Basic("chan")))>>),
              MapV(MapOf(Basic("string"), SliceOf(Basic("int"))), FALSE,
                   MapSet(EmptyMap, <<"k">>,
                          SliceV(SliceOf(Basic("int")), FALSE,
                                 <<IntV(Basic("int"), 1), IntV(Basic("int"), 2)>>)))}

\* The inputs a client hands to Unmarshal together with a typed destination.
BindInputs ==
    {<<"d", "e">>,
     <<"d", "3", ":", "a", "g", "e", "i", "3", "0", "e", "e">>,
     <<"d", "4", ":", "n", "a", "m", "e", "2", ":", "J", "o", "e">>,
     <<"d", "3", ":", "a", "g", "e", "i", "3", "0", "e", "4", ":", "n", "a", "m", "e", "2", ":", "J", "o", "e">>,
     <<"d", "3", ":", "a", "g", "e", "i", "3", "0", "e", "4", ":", "n", "a", "m", "e", "i", "1", "e", "e">>,
     <<"d", "1", ":", "-", "1", ":", "x", "1", ":", "X", "i", "5", "e", "1", ":", "y", "i", "6", "e", "e">>,
     <<"d", "1", "3", ":", "n", "a", "m", "e", ",", "r", "e", "q", "u", "i", "r", "e", "d", "2", ":", "J", "o", "e">>,
     <<"d", "1", "3", ":", "a", "g", "e", ",", "o", "m", "i", "t", "e", "m", "p", "t", "y", "i", "5", "e", "e">>,
     <<"d", "1", ":", "q", "i", "7", "e", "e">>,
     <<"i", "1", "e">>,
     <<"d", "4", ":", "n", "a", "m", "e">>,
     <<"l", "i", "1", "e", "i", "3", "0", "0", "e", "e">>,
     <<"d", "1", ":", "k", "l", "i", "1", "e", "i", "3", "0", "0", "e", "e", "e">>,
     <<"d", "1", ":", "a", "l", "i", "1", "e", "e", "1", ":", "b", "l", "1", ":", "x", "e", "e">>,
     <<"d", "5", ":", "i", "t", "e", "m", "s", "l", "i", "1", "e", "i", "3", "0", "0", "e", "e",
       "4", ":", "n", "a", "m", "e", "2", ":", "J", "o", "e">>,
     <<"d", "1", "3", ":", "n", "a", "m", "e", ",", "r", "e", "q", "u", "i", "r", "e", "d", "i", "1", "e", "e">>}
\* Integers around the limits of the 8 and 16 bit kinds, the numeric
\* destination types, and the value a destination holds before the call.
NumberValues ==
    {-32769, -32768, -129, -128, -1, 0, 1, 127, 128, 255, 256, 32767, 32768, 65535, 65536}
NumberInputs == {FormatInteger(n) : n \in NumberValues}
NumericTypes ==
    {Basic(kind) : kind \in {"int", "int8", "int16", "int64", "uint", "uint8", "uint16"}}
Preset(typ) == IntV(typ, 3)

BindTypes ==
    StructTypes \cup {Holder, Basic("int8"), MapOf(Basic("string"), Basic("int8")),
                      SliceOf(Basic("int8")), MapOf(Basic("string"), SliceOf(Basic("int8")))}

-----------------------------------------------------------------------------
(* The client: construction, then calls *)

Impls == {"bencode.go", "part_000"}
StreamModes == {"bytes", "nested", "dict", "items", "truncated"}

NotMarshalled   == [called |-> FALSE, bytes |-> <<>>, err |-> NoErr]
NotUnmarshalled == [called |-> FALSE, dst |-> Nil, val |-> Nil, err |-> NoErr]


-----------------------------------------------------------------------------
(* The metadata cache under concurrent callers: getCachedStructInfo and      *)
(* ClearStructInfoCache, one action per lock operation and per access of the *)
(* map in between.                                                           *)

MaxGoroutines == 2   \* goroutines calling into the cache
MaxOps        == 3   \* calls the goroutines make in all

Goroutines == 1..MaxGoroutines
CacheTypes == {MyStruct, ZebraApple}

\* make(map[reflect.Type][]cachedStructFieldInfo)
EmptyCache == [t \in {} |-> <<>>]

\* sync.RWMutex: w is the goroutine holding the exclusive lock (0 when free),
\* r the goroutines holding the shared lock.
RWMutex(w, r) == [w |-> w, r |-> r]
CanRLock(m)   == m.w = 0
CanLock(m)    == m.w = 0 /\ m.r = {}
RLock(m, g)   == RWMutex(m.w, m.r \cup {g})
RUnlock(m, g) == RWMutex(m.w, m.r \ {g})
Lock(m, g)    == RWMutex(g, m.r)
Unlock(m, g)  == RWMutex(IF m.w = g THEN 0 ELSE m.w, m.r)

NoType == [kind |-> "none"]
Goroutine(pc, typ, info, found) ==
    [pc |-> pc, typ |-> typ, info |-> info, found |-> found]
Idle == Goroutine("idle", NoType, <<>>, FALSE)
At(g, pc)   == goroutines[g].pc = pc
Goto(g, pc) == goroutines' = [goroutines EXCEPT ![g].pc = pc]

\* info, found := structInfoCache[typ]
Lookup(cache, typ) ==
    IF typ \in DOMAIN cache THEN [info |-> cache[typ], found |-> TRUE]
    ELSE [info |-> <<>>, found |-> FALSE]

\* structInfoCacheMutex.RUnlock() right after the lookup, found or not.  In
\* the Upgrade variant a miss asks for the exclusive lock with the shared one
\* still held.
AfterLookupUpgrade(found) == IF found THEN "RUnlock" ELSE "Lock"
AfterLookup(found) == "RUnlock"

\* if found { return info }; structInfoCacheMutex.Lock()
AfterRUnlockNoLock(found) == IF found THEN "return" ELSE "store"
AfterRUnlock(found) == IF found THEN "return" ELSE "Lock"

\* if info, found = structInfoCache[typ]; found { return info }
AfterLockNoRecheck(found) == "store"
AfterLock(found) == IF found THEN "Unlock" ELSE "store"

\* structInfoCache = make(map[reflect.Type][]cachedStructFieldInfo)
ClearedCacheOneType(cache) ==
    IF DOMAIN cache = {} THEN cache
    ELSE LET gone == CHOOSE t \in DOMAIN cache : TRUE
         IN  [t \in DOMAIN cache \ {gone} |-> cache[t]]
ClearedCache(cache) == EmptyCache

\* What the field loop and the sort of getCachedStructInfo build for each type.
ComputedFields == [typ \in CacheTypes |-> getCachedStructInfo(typ)]

\* go getCachedStructInfo(typ)
callGet(g) ==
    /\ mode = "cache"
    /\ At(g, "idle")
    /\ resolved.calls < MaxOps
    /\ \E typ \in CacheTypes :
         goroutines' = [goroutines EXCEPT ![g] = Goroutine("RLock", typ, <<>>, FALSE)]
    /\ resolved' = [resolved EXCEPT !.calls = @ + 1]
    /\ UNCHANGED <<clientVars, structInfoCache, structInfoCacheMutex>>

\* structInfoCacheMutex.RLock()
getRLock(g) ==
    /\ At(g, "RLock")
    /\ CanRLock(structInfoCacheMutex)
    /\ structInfoCacheMutex' = RLock(structInfoCacheMutex, g)
    /\ Goto(g, "lookup")
    /\ UNCHANGED <<clientVars, structInfoCache, resolved>>

\* info, found := structInfoCache[typ]
getLookup(g) ==
    /\ At(g, "lookup")
    /\ LET l == Lookup(structInfoCache, goroutines[g].typ)
       IN  goroutines' = [goroutines EXCEPT ![g].info = l.info, ![g].found = l.found,
                                            ![g].pc = AfterLookup(l.found)]
    /\ UNCHANGED <<clientVars, structInfoCache, structInfoCacheMutex, resolved>>

\* structInfoCacheMutex.RUnlock(); if found { return info }
getRUnlock(g) ==
    /\ At(g, "RUnlock")
    /\ structInfoCacheMutex' = RUnlock(structInfoCacheMutex, g)
    /\ Goto(g, AfterRUnlock(goroutines[g].found))
    /\ UNCHANGED <<clientVars, structInfoCache, resolved>>

\* structInfoCacheMutex.Lock(); defer structInfoCacheMutex.Unlock()
getLock(g) ==
    /\ At(g, "Lock")
    /\ CanLock(structInfoCacheMutex)
    /\ structInfoCacheMutex' = Lock(structInfoCacheMutex, g)
    /\ Goto(g, "recheck")
    /\ UNCHANGED <<clientVars, structInfoCache, resolved>>

\* if info, found = structInfoCache[typ]; found { return info }
getRecheck(g) ==
    /\ At(g, "recheck")
    /\ LET l == Lookup(structInfoCache, goroutines[g].typ)
       IN  goroutines' = [goroutines EXCEPT ![g].info = l.info, ![g].found = l.found,
                                            ![g].pc = AfterLock(l.found)]
    /\ UNCHANGED <<clientVars, structInfoCache, structInfoCacheMutex, resolved>>

\* The field loop and the sort, then structInfoCache[typ] = fields.
getStore(g) ==
    /\ At(g, "store")
    /\ LET typ    == goroutines[g].typ
           fields == ComputedFields[typ]
       IN  /\ structInfoCache' = MapSet(structInfoCache, typ, fields)
           /\ goroutines' = [goroutines EXCEPT ![g].info = fields, ![g].pc = "Unlock"]
           /\ resolved' = [resolved EXCEPT !.computes[typ] = @ + 1]
    /\ UNCHANGED <<clientVars, structInfoCacheMutex>>

\* The deferred structInfoCacheMutex.Unlock() of getCachedStructInfo.
getUnlock(g) ==
    /\ At(g, "Unlock")
    /\ structInfoCacheMutex' = Unlock(structInfoCacheMutex, g)
    /\ Goto(g, "return")
    /\ UNCHANGED <<clientVars, structInfoCache, resolved>>

\* return info / return fields
getReturn(g) ==
    /\ At(g, "return")
    /\ goroutines' = [goroutines EXCEPT ![g] = Idle]
    /\ UNCHANGED <<clientVars, structInfoCache, structInfoCacheMutex, resolved>>

\* go ClearStructInfoCache()
callClear(g) ==
    /\ mode = "cache"
    /\ At(g, "idle")
    /\ resolved.calls < MaxOps
    /\ goroutines' = [goroutines EXCEPT ![g] = Goroutine("clearLock", NoType, <<>>, FALSE)]
    /\ resolved' = [resolved EXCEPT !.calls = @ + 1]
    /\ UNCHANGED <<clientVars, structInfoCache, structInfoCacheMutex>>

\* structInfoCacheMutex.Lock(); defer structInfoCacheMutex.Unlock()
clearLock(g) ==
    /\ At(g, "clearLock")
    /\ CanLock(structInfoCacheMutex)
    /\ structInfoCacheMutex' = Lock(structInfoCacheMutex, g)
    /\ Goto(g, "replace")
    /\ UNCHANGED <<clientVars, structInfoCache, resolved>>

\* structInfoCache = make(map[reflect.Type][]cachedStructFieldInfo)
clearReplace(g) ==
    /\ At(g, "replace")
    /\ structInfoCache' = ClearedCache(structInfoCache)
    /\ resolved' = [resolved EXCEPT !.computes = [t \in CacheTypes |-> 0],
                                    !.resets = @ + 1]
    /\ Goto(g, "clearUnlock")
    /\ UNCHANGED <<clientVars, structInfoCacheMutex>>

\* The deferred structInfoCacheMutex.Unlock(); ClearStructInfoCache returns.
clearUnlock(g) ==
    /\ At(g, "clearUnlock")
    /\ structInfoCacheMutex' = Unlock(structInfoCacheMutex, g)
    /\ goroutines' = [goroutines EXCEPT ![g] = Idle]
    /\ UNCHANGED <<clientVars, structInfoCache, resolved>>

Init ==
    /\ pos = 1
    /\ hist = <<>>
    /\ mres = NotMarshalled
    /\ ures = NotUnmarshalled
    /\ structInfoCache = EmptyCache
    /\ structInfoCacheMutex = RWMutex(0, {})
    /\ goroutines = [g \in Goroutines |-> Idle]
    /\ resolved = [computes |-> [t \in CacheTypes |-> 0], resets |-> 0, calls |-> 0]
    /\ \/ /\ mode = "bytes"
          /\ sink = Writer(<<>>, Unlimited)
          /\ impl \in Impls
          /\ data \in RawInputs
          /\ sent = <<>>
          /\ gv = Nil
       \/ /\ mode = "nested"
          /\ sink = Writer(<<>>, Unlimited)
          /\ impl \in Impls
          /\ sent \in NestedTokens
          /\ data = TokenBytes(sent)
          /\ gv = Nil
       \/ /\ mode = "dict"
          /\ sink = Writer(<<>>, Unlimited)
          /\ impl \in Impls
          /\ sent \in SeqsUpTo(DictEntries, MaxPairs)
          /\ \E post \in {<<>>, <<"e">>, <<"x">>} : data = DictBytes(sent, post)
          /\ gv = Nil
       \/ /\ mode = "items"
          /\ sink = Writer(<<>>, Unlimited)
          /\ impl \in Impls
          /\ sent \in SeqsUpTo(ItemCatalogue, MaxItems)
          /\ \E rest \in Trailing : data = Stream(sent) \o rest
          /\ gv = Nil
       \/ /\ mode = "truncated"
          /\ sink = Writer(<<>>, Unlimited)
          /\ impl \in Impls
          /\ sent \in {<<item>> : item \in ItemCatalogue}
          /\ \E k \in 1..(Len(Stream(sent)) - 1) : data = Truncated(Stream(sent), k)
          /\ gv = Nil
       \/ /\ mode = "value"
          /\ sink = Writer(<<>>, Unlimited)
          /\ impl = "part_000"
          /\ gv \in ValueCatalogue
          /\ data = <<>>
          /\ sent = <<>>
       \/ /\ mode = "bind"
          /\ sink = Writer(<<>>, Unlimited)
          /\ impl = "part_000"
          /\ data \in BindInputs
          /\ sent = <<>>
          /\ gv = Nil
       \/ /\ mode = "number"
          /\ sink = Writer(<<>>, Unlimited)
          /\ impl = "part_000"
          /\ data \in NumberInputs
          /\ sent = <<>>
          /\ gv = Nil
       \/ /\ mode = "write"
          /\ \E left \in 0..MaxWrites : sink = Writer(<<>>, left)
          /\ impl = "part_000"
          /\ gv \in ValueCatalogue
          /\ data = <<>>
          /\ sent = <<>>
       \/ /\ mode = "cache"
          /\ sink = Writer(<<>>, Unlimited)
          /\ impl = "part_000"
          /\ gv = Nil
          /\ data = <<>>
          /\ sent = <<>>

\* One entry of hist: the Go value the call returned (Nil with an error), the
\* error, and the reader positions before and after the call.
Call(val, err, from, to) == [val |-> val, err |-> err, from |-> from, to |-> to]

\* dec.Decode() on the Decoder of bencode.go.
DecodeNext0 ==
    /\ mode \in StreamModes
    /\ impl = "bencode.go"
    /\ Len(hist) < MaxCalls
    /\ LET r == Decode0(data, pos)
       IN  /\ hist' = Append(hist, Call(IF r.err = NoErr THEN GoValue(r.val) ELSE Nil,
                                        r.err, pos, r.pos))
           /\ pos' = r.pos
    /\ UNCHANGED <<mode, impl, data, sent, gv, mres, ures, sink,
                 structInfoCache, structInfoCacheMutex, goroutines, resolved>>

\* var x any; dec.Decode(&x) on the Decoder of part_000.
DecodeNext ==
    /\ mode \in StreamModes
    /\ impl = "part_000"
    /\ Len(hist) < MaxCalls
    /\ \E ord \in MapOrders :
         LET r == Decode(data, pos, PtrV(PtrTo(AnyType), AnyV(Nil)), ord)
         IN  /\ hist' = Append(hist, Call(r.val.target.dyn, r.err, pos, r.pos))
             /\ pos' = r.pos
    /\ UNCHANGED <<mode, impl, data, sent, gv, mres, ures, sink,
                 structInfoCache, structInfoCacheMutex, goroutines, resolved>>

\* Marshal(gv); the client keeps the bytes for the Unmarshal that follows.
MarshalValue ==
    /\ mode = "value"
    /\ ~mres.called
    /\ \E ord \in MapOrders :
         LET r == Marshal(gv, ord)
         IN  /\ mres' = [called |-> TRUE, bytes |-> r.bytes, err |-> r.err]
             /\ data' = r.bytes
    /\ UNCHANGED <<mode, impl, sent, pos, hist, gv, ures, sink,
                 structInfoCache, structInfoCacheMutex, goroutines, resolved>>

\* var d T; Unmarshal(data, &d) with T the type of the marshalled value.
UnmarshalValue ==
    /\ mode = "value"
    /\ mres.called /\ mres.err = NoErr
    /\ ~ures.called
    /\ gv # Nil /\ gv.typ.kind # "interface"
    /\ \E ord \in MapOrders :
         LET r == Unmarshal(data, PtrV(PtrTo(gv.typ), Zero(gv.typ)), ord)
         IN  ures' = [called |-> TRUE, dst |-> gv.typ, val |-> r.val.target, err |-> r.err]
    /\ UNCHANGED <<mode, impl, data, sent, pos, hist, gv, mres, sink,
                 structInfoCache, structInfoCacheMutex, goroutines, resolved>>

\* var d T; Unmarshal(data, &d) for a destination type of the client's choice.
UnmarshalInto ==
    /\ mode = "bind"
    /\ ~ures.called
    /\ \E typ \in BindTypes, ord \in MapOrders :
         LET r == Unmarshal(data, PtrV(PtrTo(typ), Zero(typ)), ord)
         IN  ures' = [called |-> TRUE, dst |-> typ, val |-> r.val.target, err |-> r.err]
    /\ UNCHANGED <<mode, impl, data, sent, pos, hist, gv, mres, sink,
                 structInfoCache, structInfoCacheMutex, goroutines, resolved>>

\* d := T(3); Unmarshal(data, &d) for a numeric type T.
UnmarshalNumber ==
    /\ mode = "number"
    /\ ~ures.called
    /\ \E typ \in NumericTypes, ord \in MapOrders :
         LET r == Unmarshal(data, PtrV(PtrTo(typ), Preset(typ)), ord)
         IN  ures' = [called |-> TRUE, dst |-> typ, val |-> r.val.target, err |-> r.err]
    /\ UNCHANGED <<mode, impl, data, sent, pos, hist, gv, mres, sink,
                 structInfoCache, structInfoCacheMutex, goroutines, resolved>>

\* NewEncoder(sink).Encode(gv) on a sink whose Write fails after the calls it
\* still allows.
EncodeValue ==
    /\ mode = "write"
    /\ ~mres.called
    /\ \E ord \in MapOrders :
         LET r == Encode(gv, sink, ord)
         IN  /\ sink' = r.w
             /\ mres' = [called |-> TRUE, bytes |-> <<>>, err |-> r.err]
    /\ UNCHANGED <<mode, impl, data, sent, pos, hist, gv, ures,
                 structInfoCache, structInfoCacheMutex, goroutines, resolved>>

\* The steps of the goroutines calling into the cache.
CacheNext ==
    \/ \E g \in Goroutines : callGet(g)
    \/ \E g \in Goroutines : getRLock(g)
    \/ \E g \in Goroutines : getLookup(g)
    \/ \E g \in Goroutines : getRUnlock(g)
    \/ \E g \in Goroutines : getLock(g)
    \/ \E g \in Goroutines : getRecheck(g)
    \/ \E g \in Goroutines : getStore(g)
    \/ \E g \in Goroutines : getUnlock(g)
    \/ \E g \in Goroutines : getReturn(g)
    \/ \E g \in Goroutines : callClear(g)
    \/ \E g \in Goroutines : clearLock(g)
    \/ \E g \in Goroutines : clearReplace(g)
    \/ \E g \in Goroutines : clearUnlock(g)

Next ==
    \/ DecodeNext0
    \/ DecodeNext
    \/ MarshalValue
    \/ UnmarshalValue
    \/ UnmarshalInto
    \/ UnmarshalNumber
    \/ EncodeValue
    \/ CacheNext

Spec == Init /\ [][Next]_vars

\* A step of goroutine g inside a call it has started.  The Go scheduler runs
\* every runnable goroutine, and sync.RWMutex hands the lock to a goroutine
\* that keeps waiting for it: weak fairness for the steps that never block,
\* strong fairness for the three that acquire a lock.
Running(g) ==
    \/ getLookup(g) \/ getRUnlock(g) \/ getRecheck(g) \/ getStore(g)
    \/ getUnlock(g) \/ getReturn(g) \/ clearReplace(g) \/ clearUnlock(g)
Acquiring(g) == getRLock(g) \/ getLock(g) \/ clearLock(g)

\* The program whose goroutines call getCachedStructInfo and
\* ClearStructInfoCache concurrently, fairly scheduled.
CacheInit == Init /\ mode = "cache"
CacheFairSpec ==
    /\ CacheInit /\ [][CacheNext]_vars
    /\ \A g \in Goroutines : WF_vars(Running(g)) /\ SF_vars(Acquiring(g))

-----------------------------------------------------------------------------
(* Properties *)

NonZeroDigits == {"1", "2", "3", "4", "5", "6", "7", "8", "9"}
AllDigits(str) == \A i \in 1..Len(str) : IsDigit(str[i])

\* int-literal = "0" | ["-"] [1-9][0-9]*
Unsigned(lit)   == IF lit # <<>> /\ lit[1] = "-" THEN Tail(lit) ELSE lit
IntGrammar(lit) ==
    \/ lit = <<"0">>
    \/ /\ Unsigned(lit) # <<>>
       /\ Unsigned(lit)[1] \in NonZeroDigits
       /\ AllDigits(Unsigned(lit))
LitDigits(lit)  == [i \in 1..Len(Unsigned(lit)) |-> DigitVal(Unsigned(lit)[i])]
FitsInt64(lit)  ==
    ~DigitsGreater(LitDigits(lit), IF lit[1] = "-" THEN MinInt64Digits ELSE MaxInt64Digits)
LitValue(lit)   == (IF lit[1] = "-" THEN -1 ELSE 1) * DigitsValue(LitDigits(lit), 0)

\* length = "0" | [1-9][0-9]*
LengthGrammar(len) == len = <<"0">> \/ (len[1] \in NonZeroDigits /\ AllDigits(len))

\* The error categories of the two decoders.
IsNullRoot(err) ==
    errorsIs(err, ErrNullRootValue) \/ errorsIs(err, ErrNullRootValue0)
IsIntegerSyntaxError(err) ==
    IF impl = "part_000" THEN err # NoErr /\ err.Type = ErrSyntaxInteger
    ELSE errorsIs(err, ErrInvalidInteger0)
IsStringLengthError(err) ==
    IF impl = "part_000" THEN err # NoErr /\ err.Type = ErrSyntaxStringLength
    ELSE err # NoErr /\ ~errorsIs(err, ErrUnexpectedEOF0)
IsUnexpectedEOF(err) ==
    IF impl = "part_000" THEN err # NoErr /\ err.Type = ErrSyntaxEOF /\ errorsIs(err, ErrUnexpectedEOF)
    ELSE errorsIs(err, ErrUnexpectedEOF0)
IsMissingValue(err) ==
    IF impl = "part_000" THEN err # NoErr /\ err.Type = ErrStructureDictValue
    ELSE errorsIs(err, ErrMissingDictionaryValue0)

\* C2: whenever the first Decode call on a stream succeeds and consumes all of
\* the stream, Marshal of the decoded value yields the stream byte for byte.
C2_CanonicalOnly ==
    (mode \in StreamModes /\ Len(hist) >= 1 /\ hist[1].err = NoErr /\ hist[1].to = Len(data) + 1)
        => \A ord \in MapOrders :
               Marshal(hist[1].val, ord).err = NoErr /\ Marshal(hist[1].val, ord).bytes = data

\* The stream is one integer token i<lit>e.
IntegerToken ==
    mode = "bytes" /\ Len(data) >= 2 /\ data[1] = "i" /\ IndexFrom(data, 2, "e") = Len(data)

\* C4: decoding i<lit>e succeeds if and only if lit matches the grammar and fits
\* in int64, then returns exactly its value; every other literal is rejected
\* with an integer-syntax error.
C4_IntegerGrammar ==
    (IntegerToken /\ Len(hist) >= 1)
        => LET lit == Slice(data, 2, Len(data) - 1)
           IN  IF IntGrammar(lit) /\ FitsInt64(lit)
               THEN hist[1].err = NoErr /\ hist[1].val = IntV(Basic("int64"), LitValue(lit))
               ELSE IsIntegerSyntaxError(hist[1].err) /\ hist[1].val = Nil

\* The length a byte-string token declares, for a prefix of digits.
Declared(len) == DigitsValue([i \in 1..Len(len) |-> DigitVal(len[i])], 0)
\* The token declares more bytes than follow its ':'.
Overlong(t) == AllDigits(t.len) /\ Declared(t.len) > Len(t.body \o t.post)

\* C5: a top-level byte-string token decodes successfully only when its length
\* prefix is "0" or a digit run without a leading zero, and a prefix with a
\* leading zero, the bytes it declares being there, is rejected with a
\* string-length syntax error.
C5_StringLengthPrefix ==
    (mode = "nested" /\ sent.pre = <<>> /\ Len(hist) >= 1)
        => /\ hist[1].err = NoErr => LengthGrammar(sent.len)
           /\ (Len(sent.len) > 1 /\ sent.len[1] = "0" /\ ~Overlong(sent))
                  => IsStringLengthError(hist[1].err)

\* The first entry whose key is not strictly greater than its predecessor's, or
\* 0 when the keys ascend strictly.
FirstUnordered(es) ==
    IF \E j \in 2..Len(es) : ~StrLess(es[j - 1].key, es[j].key)
    THEN CHOOSE j \in 2..Len(es) :
             /\ ~StrLess(es[j - 1].key, es[j].key)
             /\ \A i \in 2..(j - 1) : StrLess(es[i - 1].key, es[i].key)
    ELSE 0
\* The decoder reaches entry j's key: every entry before it has its value.
KeyReached(es, j) == j # 0 /\ \A i \in 1..(j - 1) : es[i].value # <<>>

\* C3: decoding a dictionary fails at the first key that is not strictly
\* greater than the previous key: with the duplicate-key error when the key
\* equals an earlier key, with the keys-not-sorted error otherwise; the error
\* names the key, and the reader stands right after the key, its value unread.
C3_DictKeyOrder ==
    (mode = "dict" /\ impl = "part_000" /\ Len(hist) >= 1 /\ KeyReached(sent, FirstUnordered(sent)))
        => LET j   == FirstUnordered(sent)
               key == sent[j].key
               c   == hist[1]
           IN  /\ c.err # NoErr
               /\ c.val = Nil
               /\ c.err.FieldName = key
               /\ IF \E i \in 1..(j - 1) : sent[i].key = key
                  THEN c.err.Type = ErrStructureDictKeyDup
                           /\ errorsIs(c.err, ErrDuplicateDictionaryKey)
                  ELSE c.err.Type = ErrStructureDictKeySort
                           /\ errorsIs(c.err, ErrDictionaryKeysNotSorted)
               /\ c.to = Len(DictBytes(SubSeq(sent, 1, j - 1), <<>>)) + Len(FormatString(key)) + 1

\* A dictionary a, b, a whose third key has no value was decoded, and the call
\* failed with the duplicate-key error.
C3_Witness ==
    /\ mode = "dict" /\ impl = "part_000" /\ Len(hist) >= 1
    /\ Len(sent) = 3
    /\ StrLess(sent[1].key, sent[2].key)
    /\ sent[3].key = sent[1].key
    /\ sent[1].value # <<>> /\ sent[2].value # <<>> /\ sent[3].value = <<>>
    /\ hist[1].err # NoErr
    /\ hist[1].err.Type = ErrStructureDictKeyDup

\* C6: a byte-string token that declares more bytes than remain after its ':',
\* at top level or inside lists and dictionaries, makes the call fail with the
\* unexpected-end-of-input error and return no value.
C6_TruncatedString ==
    (mode = "nested" /\ Len(hist) >= 1 /\ Overlong(sent))
        => /\ IsUnexpectedEOF(hist[1].err)
           /\ hist[1].val = Nil

\* A token declaring 2 bytes with 1 left, inside a list inside a dictionary,
\* was decoded by the structured-error decoder and the call failed.
C6_Witness ==
    /\ mode = "nested" /\ impl = "part_000" /\ Len(hist) >= 1
    /\ sent.pre = <<"d", "1", ":", "a", "l">>
    /\ sent.len = <<"2">> /\ sent.body = <<"a">> /\ sent.post = <<>>
    /\ hist[1].err # NoErr
    /\ hist[1].val = Nil

\* C7: a Decode call returns the null-root-value error exactly when no byte is
\* left where the item should start; a stream cut off inside an item yields an
\* unexpected-end-of-input or missing-value error that is not, and does not
\* wrap, the null-root-value error.
C7_NullRootVsEOF ==
    \A k \in 1..Len(hist) :
        /\ IsNullRoot(hist[k].err) <=> hist[k].from > Len(data)
        /\ (mode = "truncated" /\ k = 1)
               => /\ ~IsNullRoot(hist[k].err)
                  /\ IsUnexpectedEOF(hist[k].err) \/ IsMissingValue(hist[k].err)

\* A dictionary cut off after a key: the first call reported the missing
\* value, and the next call, with nothing left to read, the null root value.
C7_Witness ==
    /\ mode = "truncated" /\ Len(hist) = 2
    /\ sent[1].kind = "map[string]any"
    /\ IsMissingValue(hist[1].err)
    /\ hist[2].from > Len(data)
    /\ IsNullRoot(hist[2].err)

\* C8: on a stream that is the concatenation of n items, call k <= n returns
\* item k and moves the reader from the first byte of item k to the first byte
\* after it; when nothing follows the items, call n + 1 returns the
\* null-root-value error.
C8_OneItemPerCall ==
    mode = "items"
        => \A k \in 1..Len(hist) :
               /\ k <= Len(sent)
                      => /\ hist[k].err = NoErr
                         /\ hist[k].val = GoValue(sent[k])
                         /\ hist[k].from = Len(Stream(SubSeq(sent, 1, k - 1))) + 1
                         /\ hist[k].to = Len(Stream(SubSeq(sent, 1, k))) + 1
               /\ (k = Len(sent) + 1 /\ Len(data) = Len(Stream(sent)))
                      => IsNullRoot(hist[k].err)

\* Two items were written and nothing else; three calls on the Decoder of
\* bencode.go returned the two items and then the null-root-value error.
C8_Witness ==
    /\ mode = "items" /\ impl = "bencode.go"
    /\ Len(sent) = 2 /\ Len(data) = Len(Stream(sent))
    /\ Len(hist) = 3
    /\ hist[1].val = GoValue(sent[1]) /\ hist[2].val = GoValue(sent[2])
    /\ hist[3].err = ErrNullRootValue0

\* The supported typed values: integers, strings, byte slices, slices and
\* string-keyed maps of supported values, and structs of supported values whose
\* required fields are all populated.
RECURSIVE Supported(_)
Supported(v) ==
    CASE v = Nil -> FALSE
      [] v.typ.kind \in SignedKinds \cup UnsignedKinds \cup {"string"} -> TRUE
      [] v.typ.kind = "slice" -> \A i \in 1..Len(v.items) : Supported(v.items[i])
      [] v.typ.kind = "map" ->
            v.typ.key.kind = "string" /\ \A k \in DOMAIN v.m : Supported(v.m[k])
      [] v.typ.kind = "struct" ->
            LET info == getCachedStructInfo(v.typ)
            IN  \A i \in 1..Len(info) :
                    /\ Supported(v.fields[info[i].index + 1])
                    /\ info[i].required => v.fields[info[i].index + 1] # Zero(info[i].typ)
      [] OTHER -> FALSE

\* Equality field for field, a nil slice or map counting as an empty one.
RECURSIVE Same(_, _)
Same(a, b) ==
    IF a = Nil \/ b = Nil \/ a.typ # b.typ THEN a = b
    ELSE CASE a.typ.kind = "slice" ->
                  Len(a.items) = Len(b.items)
                      /\ \A i \in 1..Len(a.items) : Same(a.items[i], b.items[i])
           [] a.typ.kind = "map" ->
                  DOMAIN a.m = DOMAIN b.m /\ \A k \in DOMAIN a.m : Same(a.m[k], b.m[k])
           [] a.typ.kind = "struct" ->
                  \A i \in 1..Len(a.fields) : Same(a.fields[i], b.fields[i])
           [] OTHER -> a = b

\* C1: for every supported typed value, Marshal succeeds, and Unmarshal of its
\* bytes into a fresh destination of the value's type succeeds and leaves the
\* destination equal to the value field for field.
C1_RoundTrip ==
    (mode = "value" /\ Supported(gv))
        => /\ mres.called => mres.err = NoErr
           /\ ures.called => (ures.err = NoErr /\ Same(ures.val, gv))

\* The wire keys of the required fields of struct value v that hold their
\* type's zero value.
ZeroRequired(v) ==
    LET info == getCachedStructInfo(v.typ)
    IN  {info[i].bencodeTag : i \in {n \in 1..Len(info) :
             info[n].required /\ v.fields[info[n].index + 1] = Zero(info[n].typ)}}

\* C9: Marshal of a struct with a required field at its zero value fails, with
\* an error naming the wire key of such a field.
C9_RequiredZeroFailsEncode ==
    (mode = "value" /\ mres.called /\ gv # Nil /\ gv.typ.kind = "struct"
         /\ ZeroRequired(gv) # {})
        => /\ mres.err # NoErr
           /\ mres.err.FieldName \in ZeroRequired(gv)

\* The wire keys of the required fields of struct type typ that dictionary
\* dict has no entry for.
MissingRequired(typ, dict) ==
    LET info == getCachedStructInfo(typ)
    IN  {info[i].bencodeTag : i \in {n \in 1..Len(info) :
             info[n].required /\ info[n].bencodeTag \notin DOMAIN dict}}

\* C10: Unmarshal of a dictionary into a struct fails when the wire key of a
\* required field is absent, with an error whose field name is the smallest
\* absent key; when none is absent, an error, if any, comes from assigning a
\* field that is present.
C10_RequiredKeyMissing ==
    (mode = "bind" /\ ures.called /\ ures.dst.kind = "struct"
         /\ decode(data, 1).err = NoErr /\ decode(data, 1).val.kind = "map[string]any")
        => LET missing == MissingRequired(ures.dst, decode(data, 1).val.m)
           IN  IF missing # {}
               THEN ures.err # NoErr /\ ures.err.FieldName = SortStrings(missing)[1]
               ELSE ures.err = NoErr \/ ures.err.WrappedErr # NoErr

\* The descriptors of struct value v's fields that are not required and hold
\* their type's zero value.
ZeroOptional(v) ==
    LET info == getCachedStructInfo(v.typ)
    IN  {info[i] : i \in {n \in 1..Len(info) :
             ~info[n].required /\ v.fields[info[n].index + 1] = Zero(info[n].typ)}}

\* The keys of the dictionary that the bytes hold.
EmittedKeys(bytes) == DOMAIN decode(bytes, 1).val.m

\* C11: Marshal of a struct leaves out every field that is not required and
\* holds its type's zero value, whether or not its tag carries omitempty.
C11_ZeroFieldOmitted ==
    (mode = "value" /\ mres.called /\ gv # Nil /\ gv.typ.kind = "struct"
         /\ ZeroRequired(gv) = {})
        => /\ mres.err = NoErr
           /\ \A f \in ZeroOptional(gv) : f.bencodeTag \notin EmittedKeys(mres.bytes)

\* b holds sub as a run of consecutive bytes.
Contains(b, sub) ==
    \E i \in 1..(Len(b) - Len(sub) + 1) : SubSeq(b, i, i + Len(sub) - 1) = sub

\* The bencoding of the zero value of an integer or string type.
ZeroEncoding(typ) ==
    IF typ.kind = "string" THEN <<"0", ":">> ELSE <<"i", "0", "e">>

C13_AbsentKeyUntouched ==
    (mode = "bind" /\ ures.called /\ ures.dst.kind = "struct"
         /\ decode(data, 1).err = NoErr /\ decode(data, 1).val.kind = "map[string]any")
        => LET dict == decode(data, 1).val.m
               info == getCachedStructInfo(ures.dst)
           IN  /\ \A i \in 1..Len(info) :
                      (~info[i].required /\ info[i].bencodeTag \notin DOMAIN dict)
                          => ures.val.fields[info[i].index + 1] = Zero(info[i].typ)
               /\ MissingRequired(ures.dst, dict) = {}
                      => (ures.err = NoErr \/ ures.err.FieldName \in DOMAIN dict)

\* The descriptor of struct type typ whose wire key is key.
FieldOfKey(typ, key) ==
    LET info == getCachedStructInfo(typ)
    IN  info[CHOOSE i \in 1..Len(info) : info[i].bencodeTag = key]

\* The wire keys of struct type typ.
WireKeys(typ) ==
    LET info == getCachedStructInfo(typ)
    IN  {info[i].bencodeTag : i \in 1..Len(info)}

\* The key/value pairs of the fields of struct value v, from field i on, whose
\* wire key is key, in the order of declaration.
RECURSIVE PairsOfKey(_, _, _)
PairsOfKey(v, key, i) ==
    IF i > Len(v.typ.fields) THEN <<>>
    ELSE (IF v.typ.fields[i].IsExported /\ cachedStructFieldInfo(v.typ, i).bencodeTag = key
          THEN FormatString(key) \o Marshal(v.fields[i], "ascending").bytes
          ELSE <<>>)
             \o PairsOfKey(v, key, i + 1)

\* The key/value pairs of struct value v for the keys given, one after another.
RECURSIVE PairsInOrder(_, _)
PairsInOrder(v, keys) ==
    IF keys = <<>> THEN <<>>
    ELSE PairsOfKey(v, Head(keys), 1) \o PairsInOrder(v, Tail(keys))

\* C14: the descriptor list of a struct type is sorted ascending by wire key,
\* and Marshal of a struct emits d, the pairs of its fields in ascending order
\* of their wire keys whatever the order of declaration, and e.
C14_FieldsInKeyOrder ==
    (mode = "value" /\ mres.called /\ gv # Nil /\ gv.typ.kind = "struct")
        => LET info == getCachedStructInfo(gv.typ)
           IN  /\ \A i, j \in 1..Len(info) :
                      i < j => ~StrLess(info[j].bencodeTag, info[i].bencodeTag)
               /\ mres.err = NoErr
               /\ mres.bytes = <<"d">> \o PairsInOrder(gv, SortStrings(WireKeys(gv.typ)))
                                    \o <<"e">>

\* A struct that declares zebra before apple has been marshalled, apple first.
C14_Witness ==
    /\ mode = "value" /\ mres.called
    /\ gv = StructV(ZebraApple, <<StrV(<<"J", "o">>), IntV(Basic("int"), 25)>>)
    /\ mres.bytes = <<"d", "5", ":", "a", "p", "p", "l", "e", "i", "2", "5", "e",
                      "5", ":", "z", "e", "b", "r", "a", "2", ":", "J", "o", "e">>

\* The key/value pairs of map value v for the keys given, one after another.
RECURSIVE MapPairsInOrder(_, _)
MapPairsInOrder(v, keys) ==
    IF keys = <<>> THEN <<>>
    ELSE FormatString(Head(keys)) \o Marshal(v.m[Head(keys)], "ascending").bytes
             \o MapPairsInOrder(v, Tail(keys))

\* C15: Marshal of a string-keyed map of supported values emits d, every pair
\* of the map exactly once in ascending order of the keys, and e, in whatever
\* order the map yields its keys.
C15_MapKeysSorted ==
    (mode = "value" /\ mres.called /\ gv # Nil /\ gv.typ.kind = "map" /\ Supported(gv))
        => /\ mres.err = NoErr
           /\ mres.bytes = <<"d">> \o MapPairsInOrder(gv, SortStrings(DOMAIN gv.m)) \o <<"e">>

\* The map {"b": 2, "a": 1} has been marshalled to d1:ai1e1:bi2ee.
C15_Witness ==
    /\ mode = "value" /\ mres.called
    /\ gv # Nil /\ gv.typ = MapOf(Basic("string"), Basic("int"))
    /\ DOMAIN gv.m = {<<"a">>, <<"b">>}
    /\ mres.bytes = <<"d", "1", ":", "a", "i", "1", "e", "1", ":", "b", "i", "2", "e", "e">>

\* The positions of the exported fields of struct type typ that carry no
\* bencode tag.
UntaggedFields(typ) ==
    {i \in 1..Len(typ.fields) : typ.fields[i].IsExported /\ typ.fields[i].Tag = <<>>}

\* C16: an exported field without a bencode tag takes part under its own
\* name: Marshal emits the field's name as the key of its value, and Unmarshal
\* of a dictionary holding an integer under that name stores it in the field.
C16_UntaggedFieldByName ==
    /\ (mode = "value" /\ mres.called /\ gv # Nil /\ gv.typ.kind = "struct")
           => \A i \in UntaggedFields(gv.typ) :
                  /\ mres.err = NoErr
                  /\ Contains(mres.bytes, FormatString(gv.typ.fields[i].Name)
                                              \o FormatInteger(gv.fields[i].n))
    /\ (mode = "bind" /\ ures.called /\ ures.dst.kind = "struct"
           /\ decode(data, 1).err = NoErr /\ decode(data, 1).val.kind = "map[string]any")
           => LET dict == decode(data, 1).val.m
              IN  \A i \in UntaggedFields(ures.dst) :
                      (ures.dst.fields[i].Name \in DOMAIN dict
                           /\ dict[ures.dst.fields[i].Name].kind = "int64")
                          => ures.val.fields[i].n = dict[ures.dst.fields[i].Name].n

\* The positions of the separators in tag text tag.
Separators(tag) == {i \in 1..Len(tag) : tag[i] = bencodeTagSeparator}

\* The text of tag before its first separator.
TagKey(tag) ==
    IF Separators(tag) = {} THEN tag
    ELSE SubSeq(tag, 1, (CHOOSE i \in Separators(tag) : \A j \in Separators(tag) : i <= j) - 1)

\* Option opt stands somewhere in the option list of tag: between two
\* neighbouring separators, or between the last separator and the end.
HasOption(tag, opt) ==
    \E i \in Separators(tag) :
        \E j \in (Separators(tag) \cup {Len(tag) + 1}) :
            /\ i < j
            /\ \A m \in Separators(tag) : ~(i < m /\ m < j)
            /\ TrimSpace(SubSeq(tag, i + 1, j - 1)) = opt

Representable(kind, n) ==
    CASE kind = "int8"   -> -128 <= n /\ n <= 127
      [] kind = "int16"  -> -32768 <= n /\ n <= 32767
      [] kind = "uint8"  -> 0 <= n /\ n <= 255
      [] kind = "uint16" -> 0 <= n /\ n <= 65535
      [] kind \in {"uint", "uint32", "uint64"} -> 0 <= n
      [] OTHER -> TRUE

\* C18: Unmarshal of an integer into a numeric destination succeeds, and then
\* stores exactly the integer, if and only if the integer is representable in
\* the destination; otherwise it fails and the destination keeps the value it
\* had, with the overflow category unless the integer is negative and the
\* destination unsigned.
C18_IntegerFitsOrFails ==
    (mode = "number" /\ ures.called)
        => LET n    == decode(data, 1).val.n
               kind == ures.dst.kind
           IN  IF Representable(kind, n)
               THEN ures.err = NoErr /\ ures.val = IntV(ures.dst, n)
               ELSE /\ ures.err # NoErr
                    /\ ures.val = Preset(ures.dst)
                    /\ (kind \in SignedKinds \/ n >= 0) => ures.err.Type = ErrUnmarshalOverflow

\* 128 has been refused by an int8 destination with the overflow category, and
\* the destination still holds what it held.
C18_Witness ==
    /\ mode = "number" /\ ures.called
    /\ ures.dst.kind = "int8" /\ data = FormatInteger(128)
    /\ ures.err # NoErr /\ ures.err.Type = ErrUnmarshalOverflow
    /\ ures.val = Preset(ures.dst)

\* The value an interface value holds, or the value itself.
Dyn(v) == IF v # Nil /\ v.typ.kind = "interface" THEN v.dyn ELSE v

\* A value of a shape Encode has no case for.
Unsupported(v) == Dyn(v) = Nil \/ Dyn(v).typ.kind \in {"bool", "chan", "func", "ptr"}

\* A map whose key type is not string.
BadKeyMap(v) == v # Nil /\ v.typ.kind = "map" /\ v.typ.key.kind # "string"

\* The sink has seen no Write call.
Untouched(w) == w.buf = <<>> /\ w.done = 0 /\ w.failed = 0

\* The positions of the unsupported elements of slice value v.
BadItems(v) == {i \in 1..Len(v.items) : Unsupported(v.items[i])}

\* C19: Encode of a value of an unsupported shape fails with the
\* unsupported-type category, and Encode of a map whose key type is not string
\* with the map-key-not-string category, without a Write call on the sink;
\* Marshal of such a value, or of a slice holding one, returns no bytes.
C19_UnsupportedWritesNothing ==
    (mode \in {"value", "write"} /\ mres.called)
        => /\ Unsupported(gv)
                  => /\ mres.err # NoErr /\ mres.err.Type = ErrEncodeUnsupportedType
                     /\ mres.bytes = <<>> /\ Untouched(sink)
           /\ BadKeyMap(gv)
                  => /\ mres.err # NoErr /\ mres.err.Type = ErrEncodeMapKeyNotString
                     /\ mres.bytes = <<>> /\ Untouched(sink)
           /\ (mode = "value" /\ gv # Nil /\ gv.typ.kind = "slice" /\ BadItems(gv) # {})
                  => /\ mres.err # NoErr /\ mres.err.Type = ErrEncodeUnsupportedType
                     /\ mres.bytes = <<>>

\* Encode of a channel on a sink has failed with the unsupported-type category
\* and the sink is as it was.
C19_Witness ==
    /\ mode = "write" /\ mres.called
    /\ gv = OtherV(Basic("chan"))
    /\ mres.err # NoErr /\ mres.err.Type = ErrEncodeUnsupportedType
    /\ Untouched(sink)

\* b starts with the bytes of pre.
IsPrefix(pre, b) == Len(pre) <= Len(b) /\ SubSeq(b, 1, Len(pre)) = pre

\* C20: when a Write of the sink has failed during Encode, Encode returns an
\* error of the write-failure category that wraps the sink's error, no Write
\* call follows the failed one, and the sink holds what the Write calls before
\* it wrote: the start of the bytes an unfailing sink receives, at least one
\* byte for each call that succeeded.
C20_WriteFailureFailFast ==
    (mode = "write" /\ mres.called /\ sink.failed > 0)
        => /\ mres.err # NoErr
           /\ mres.err.Type = ErrEncodeWriteError
           /\ mres.err.WrappedErr = WriteFail
           /\ sink.failed = 1
           /\ \E ord \in MapOrders :
                  IsPrefix(sink.buf, Encode(gv, Writer(<<>>, Unlimited), ord).w.buf)
           /\ Len(sink.buf) >= sink.done

\* Encode of the slice [1, 2] on a sink that allows two Write calls has failed
\* at the third, with li1e left in the sink.
C20_Witness ==
    /\ mode = "write" /\ mres.called
    /\ gv = SliceV(SliceOf(Basic("int")), FALSE, <<IntV(Basic("int"), 1), IntV(Basic("int"), 2)>>)
    /\ sink.failed = 1 /\ sink.done = 2
    /\ sink.buf = <<"l", "i", "1", "e">>
    /\ mres.err # NoErr /\ mres.err.Type = ErrEncodeWriteError

\* C23: Marshal of an integer n of a signed or unsigned integer type returns i,
\* a decimal literal and e, where the literal is 0 or an optional minus sign
\* and digits that start with none of 0, and the literal's value is n.
C23_IntegerCanonical ==
    (mode = "value" /\ mres.called /\ gv # Nil
         /\ gv.typ.kind \in SignedKinds \cup UnsignedKinds)
        => /\ mres.err = NoErr
           /\ Len(mres.bytes) >= 3
           /\ mres.bytes[1] = "i" /\ mres.bytes[Len(mres.bytes)] = "e"
           /\ LET lit == SubSeq(mres.bytes, 2, Len(mres.bytes) - 1)
               IN  IntGrammar(lit) /\ LitValue(lit) = gv.n
                       /\ (lit[1] = "-" <=> gv.n < 0)

\* The int64 -100 has been marshalled to i-100e.
C23_Witness ==
    /\ mode = "value" /\ mres.called
    /\ gv = IntV(Basic("int64"), -100)
    /\ mres.bytes = <<"i", "-", "1", "0", "0", "e">>

\* Binding src to a destination of type typ fails at this very level, without
\* descending into an element, a map value or a field.
DirectFailure(typ, src) ==
    CASE typ.kind = "string" -> src.kind # "[]byte"
      [] typ.kind \in SignedKinds \cup UnsignedKinds ->
             src.kind # "int64" \/ ~Representable(typ.kind, src.n)
      [] typ.kind = "slice" -> src.kind # "[]any"
      [] typ.kind = "map" -> typ.key.kind # "string" \/ src.kind # "map[string]any"
      [] typ.kind = "struct" -> src.kind # "map[string]any"
      [] typ.kind = "interface" -> FALSE
      [] OTHER -> TRUE

\* The chain of err spells a path from src, bound to type typ, to a value that
\* fails directly: each wrapper names the index, the key or the wire key of
\* its level, has the category of what it wraps, and the innermost error names
\* no field and wraps nothing.
RECURSIVE SpellsPath(_, _, _)
SpellsPath(typ, src, err) ==
    IF err.WrappedErr = NoErr
    THEN err.FieldName = <<>> /\ DirectFailure(typ, src)
    ELSE /\ err.Type = err.WrappedErr.Type
         /\ ~DirectFailure(typ, src)
         /\ CASE typ.kind = "slice" ->
                     \E i \in 1..Len(src.items) :
                         /\ err.FieldName = NatDigits(i - 1)
                         /\ SpellsPath(typ.elem, src.items[i], err.WrappedErr)
              [] typ.kind = "map" ->
                     /\ err.FieldName \in DOMAIN src.m
                     /\ SpellsPath(typ.elem, src.m[err.FieldName], err.WrappedErr)
              [] typ.kind = "struct" ->
                     /\ err.FieldName \in WireKeys(typ)
                     /\ err.FieldName \in DOMAIN src.m
                     /\ SpellsPath(FieldOfKey(typ, err.FieldName).typ, src.m[err.FieldName],
                                   err.WrappedErr)
              [] OTHER -> FALSE

\* C24: when Unmarshal fails in binding a decoded value, the error is wrapped
\* once for each list, map and struct around the failing value: each wrapper
\* has the category of the innermost error, names the element's index, the key
\* or the field's wire key, and wraps the error of the level below.
C24_ErrorPath ==
    (mode = "bind" /\ ures.called /\ ures.err # NoErr /\ decode(data, 1).err = NoErr)
        => SpellsPath(ures.dst, decode(data, 1).val, ures.err)

\* The first entry that has no value, or 0 when every entry has one.
FirstValueless(es) ==
    IF \E j \in 1..Len(es) : es[j].value = <<>>
    THEN CHOOSE j \in 1..Len(es) :
             es[j].value = <<>> /\ \A i \in 1..(j - 1) : es[i].value # <<>>
    ELSE 0

\* What follows the key of entry j in the stream.
AfterKey(es, j) ==
    SubSeq(data, Len(DictBytes(SubSeq(es, 1, j - 1), <<>>)) + Len(FormatString(es[j].key)) + 1,
           Len(data))

\* A byte that an item can start with.
StartsItem(c) == c \in {"i", "l", "d"} \/ IsDigit(c)

IsUnexpectedToken(err) ==
    IF impl = "part_000" THEN err # NoErr /\ err.Type = ErrSyntaxUnexpectedToken
    ELSE errorsIs(err, ErrInvalidType0)

\* C25: a dictionary whose keys ascend up to a key that has no value fails in
\* one of two ways: with the missing-value error, naming the key, when the
\* stream ends right after the key, and with the unexpected-token (invalid
\* type) error, not the missing-value error, when a byte that starts no item
\* follows the key.
C25_MissingValueTwoWays ==
    (mode = "dict" /\ Len(hist) >= 1 /\ FirstValueless(sent) # 0
         /\ FirstUnordered(SubSeq(sent, 1, FirstValueless(sent))) = 0)
        => LET j    == FirstValueless(sent)
               rest == AfterKey(sent, j)
               c    == hist[1]
           IN  /\ rest = <<>>
                      => /\ IsMissingValue(c.err)
                         /\ ~IsUnexpectedToken(c.err)
                         /\ impl = "part_000" => c.err.FieldName = sent[j].key
               /\ (rest # <<>> /\ ~StartsItem(rest[1]))
                      => /\ IsUnexpectedToken(c.err)
                         /\ ~IsMissingValue(c.err)

\* The stream d1:ae, a key followed by the terminator, was decoded and the
\* call failed with the unexpected-token error.
C25_Witness ==
    /\ mode = "dict" /\ impl = "part_000" /\ Len(hist) >= 1
    /\ data = <<"d", "1", ":", "a", "e">>
    /\ hist[1].err # NoErr /\ hist[1].err.Type = ErrSyntaxUnexpectedToken

\* Both decoders read bytes as one item that ends where the bytes end.
OneWholeItem(bytes) ==
    /\ decode(bytes, 1).err = NoErr /\ decode(bytes, 1).pos = Len(bytes) + 1
    /\ Decode0(bytes, 1).err = NoErr /\ Decode0(bytes, 1).pos = Len(bytes) + 1

\* C26: whatever Marshal returns without an error, the decoder accepts as
\* exactly one well-formed item, with no byte left over.
C26_OutputDecodes ==
    (mode = "value" /\ mres.called /\ mres.err = NoErr) => OneWholeItem(mres.bytes)

\* C27: when Unmarshal returns an error, the destination holds the value it
\* had before the call: the zero value of its type for a fresh destination,
\* the preset number for a numeric one.
C27_ErrorLeavesDestination ==
    /\ (mode = "bind" /\ ures.called /\ ures.err # NoErr) => ures.val = Zero(ures.dst)
    /\ (mode = "number" /\ ures.called /\ ures.err # NoErr) => ures.val = Preset(ures.dst)

\* The deepest Decode frame of bencode.go that is active while Decode runs on
\* b from p, the call itself counted as 1: the list loop and the dictionary
\* loop call Decode once per item, key and value they reach.
SetMax(S) == IF S = {} THEN 0 ELSE CHOOSE x \in S : \A y \in S : y <= x

RECURSIVE Depth0(_, _)
RECURSIVE ListDepth0(_, _)
RECURSIVE DictDepth0(_, _, _, _, _)

ListDepth0(b, p) ==
    IF p > Len(b) \/ b[p] = "e" THEN 0
    ELSE LET item == Decode0(b, p)
         IN  SetMax({Depth0(b, p),
                     IF item.err # NoErr THEN 0 ELSE ListDepth0(b, item.pos)})

DictDepth0(b, p, dict, prevKey, firstKey) ==
    IF p > Len(b) \/ b[p] = "e" THEN 0
    ELSE LET keyVal == Decode0(b, p)
         IN  IF keyVal.err # NoErr \/ keyVal.val.kind # "[]byte" THEN Depth0(b, p)
             ELSE LET strKey == keyVal.val.b
                      value  == Decode0(b, keyVal.pos)
                  IN  IF strKey \in DOMAIN dict \/ (~firstKey /\ StrGeq(prevKey, strKey))
                      THEN Depth0(b, p)
                      ELSE SetMax({Depth0(b, p), Depth0(b, keyVal.pos),
                                   IF value.err # NoErr THEN 0
                                   ELSE DictDepth0(b, value.pos,
                                                   MapSet(dict, strKey, value.val),
                                                   strKey, FALSE)})

Depth0(b, p) ==
    IF p > Len(b) THEN 1
    ELSE IF b[p] = "l" THEN 1 + ListDepth0(b, p + 1)
    ELSE IF b[p] = "d" THEN 1 + DictDepth0(b, p + 1, EmptyMap, <<>>, TRUE)
    ELSE 1

\* The nesting depth of a decoded value: 1 for a string or an integer, one more
\* than its deepest item, key or value for a list or a dictionary.
RECURSIVE ValueDepth(_)
ValueDepth(v) ==
    IF v.kind = "[]any"
    THEN 1 + SetMax({ValueDepth(v.items[i]) : i \in 1..Len(v.items)})
    ELSE IF v.kind = "map[string]any"
    THEN 1 + SetMax({1 : k \in DOMAIN v.m} \cup {ValueDepth(v.m[k]) : k \in DOMAIN v.m})
    ELSE 1

\* The bytes of b from p on that can open a list or a dictionary.
Openers(b, p) == Cardinality({i \in p..Len(b) : b[i] \in {"l", "d"}})

\* C30: every Decode call of bencode.go returns with the reader inside the
\* input and never behind where it started; a call that succeeds has consumed
\* at least one byte (so each turn of the list and dictionary loops advances
\* or returns); the deepest recursion is the nesting depth of the value
\* decoded, and on any input at most one more than the opening bytes it holds.
C30_DecodeTerminates ==
    (impl = "bencode.go" /\ mode \in StreamModes) =>
        \A k \in 1..Len(hist) :
            LET c == hist[k]
                r == Decode0(data, c.from)
            IN  /\ c.from <= c.to
                /\ c.to <= Len(data) + 1
                /\ c.err = NoErr => c.to > c.from
                /\ Depth0(data, c.from) <= 1 + Openers(data, c.from)
                /\ c.err = NoErr => Depth0(data, c.from) = ValueDepth(r.val)

\* ll1:aee decoded by bencode.go: three frames deep, seven bytes consumed.
C30_Witness ==
    /\ impl = "bencode.go"
    /\ data = <<"l", "l", "1", ":", "a", "e", "e">>
    /\ Len(hist) >= 1
    /\ hist[1].err = NoErr
    /\ hist[1].to = 8
    /\ Depth0(data, 1) = 3

\* C21: between two resets the descriptor list of a type is computed and
\* inserted at most once, and is in the cache exactly when it has been; a
\* caller that missed under the shared lock and finds the entry under the
\* exclusive lock returns that entry; callers about to return the list of the
\* same type return the same list.
C21_ComputedOnce ==
    mode = "cache" =>
        /\ \A t \in CacheTypes :
               /\ resolved.computes[t] <= 1
               /\ resolved.computes[t] = 1 <=> t \in DOMAIN structInfoCache
        /\ \A g \in Goroutines :
               (At(g, "Unlock") /\ goroutines[g].found) =>
                   /\ resolved.computes[goroutines[g].typ] = 1
                   /\ goroutines[g].info = structInfoCache[goroutines[g].typ]
        /\ \A g, h \in Goroutines :
               (At(g, "return") /\ At(h, "return")
                    /\ goroutines[g].typ = goroutines[h].typ) =>
                   goroutines[g].info = goroutines[h].info

\* Two goroutines resolved the same type at once: one inserted the list, the
\* other missed under the shared lock, found the entry on its re-check and is
\* about to return it.
C21_Witness ==
    /\ mode = "cache"
    /\ resolved.resets = 0
    /\ \E g, h \in Goroutines :
         /\ g # h
         /\ At(g, "Unlock") /\ goroutines[g].found
         /\ structInfoCacheMutex.w = g
         /\ At(h, "return") /\ ~goroutines[h].found
         /\ goroutines[h].typ = goroutines[g].typ

\* C22: right after ClearStructInfoCache replaced the map it has no entry at
\* all; every entry the map holds was computed and inserted after the last
\* reset and is the full sorted descriptor list of its type; a resolve,
\* whatever resets ran beside it, returns that full sorted list.
C22_ResetWipesAll ==
    mode = "cache" =>
        /\ \A g \in Goroutines : At(g, "clearUnlock") => structInfoCache = EmptyCache
        /\ \A t \in DOMAIN structInfoCache :
               /\ resolved.computes[t] = 1
               /\ structInfoCache[t] = getCachedStructInfo(t)
        /\ \A g \in Goroutines :
               At(g, "return") => goroutines[g].info = getCachedStructInfo(goroutines[g].typ)

\* After a reset a type was resolved again and its list re-inserted, while the
\* other goroutine is already asking for the lock of the next reset.
C22_Witness ==
    /\ mode = "cache"
    /\ resolved.resets >= 1
    /\ \E g, h \in Goroutines :
         /\ g # h
         /\ At(g, "return")
         /\ goroutines[g].typ \in DOMAIN structInfoCache
         /\ resolved.computes[goroutines[g].typ] = 1
         /\ At(h, "clearLock")

\* C28: a step that writes the cache map (the insertion, the replacement) is
\* taken by the goroutine holding the exclusive lock while nobody holds the
\* shared one; a step that reads the map is taken by a goroutine holding the
\* shared or the exclusive lock while nobody else holds the exclusive one; the
\* map changes in no other step.
C28_LockDiscipline ==
    [][ /\ \A g \in Goroutines :
             LET moves == goroutines'[g].pc # goroutines[g].pc
             IN  /\ (goroutines[g].pc \in {"store", "replace"} /\ moves) =>
                        structInfoCacheMutex = RWMutex(g, {})
                 /\ (goroutines[g].pc \in {"lookup", "recheck"} /\ moves) =>
                        /\ g \in structInfoCacheMutex.r \/ structInfoCacheMutex.w = g
                        /\ structInfoCacheMutex.w \in {0, g}
        /\ structInfoCache' # structInfoCache =>
               \E g \in Goroutines : /\ goroutines[g].pc \in {"store", "replace"}
                                      /\ goroutines'[g].pc # goroutines[g].pc
      ]_vars

\* A goroutine has just inserted a list under the exclusive lock while the
\* other one waits for the shared lock.
C28_Witness ==
    /\ mode = "cache"
    /\ \E g, h \in Goroutines :
         /\ g # h
         /\ At(g, "Unlock") /\ ~goroutines[g].found
         /\ structInfoCacheMutex = RWMutex(g, {})
         /\ goroutines[g].typ \in DOMAIN structInfoCache
         /\ At(h, "RLock")

\* C29: under fair scheduling every call a goroutine has started returns, and
\* a goroutine that is in no call holds neither lock.
C29_CallsReturn ==
    /\ \A g \in Goroutines : (goroutines[g].pc # "idle") ~> (goroutines[g].pc = "idle")
    /\ [](\A g \in Goroutines :
             goroutines[g].pc = "idle" =>
                 structInfoCacheMutex.w # g /\ g \notin structInfoCacheMutex.r)

\* Every goroutine has made all its calls, resolves and resets among them, all
\* have returned and the mutex is free.
C29_Witness ==
    /\ mode = "cache"
    /\ \A g \in Goroutines : At(g, "idle")
    /\ resolved.calls = MaxOps
    /\ structInfoCacheMutex = RWMutex(0, {})
    /\ resolved.resets >= 1
    /\ \E t \in CacheTypes : resolved.computes[t] = 1

=============================================================================
